---- MODULE Spec2Model ----
(***************************************************************************)
(* A model of the containment core of ai-agent-killswitch:                 *)
(*   - the Threshold Engine      (src/python/behavioral_thresholds.py)     *)
(*   - the Fail-Mode Handler and its Policy Cache (src/python/fail_mode.py)*)
(*   - the Kill Executor and tree kill (src/python/hard_kill.py)           *)
(* Each component has its own specification over the shared variables; the *)
(* other components stay in their idle state.                              *)
(*                                                                         *)
(* time.time() is modelled as the integer clock `now` (ticks).             *)
(***************************************************************************)
EXTENDS Integers, Sequences, FiniteSets, TLC

VARIABLES
    now,             \* time.time(), in ticks
    \* ---- Threshold Engine (BehavioralThresholds) ----
    thresholds,      \* self.thresholds: action_type -> ThresholdConfig (or none)
    action_history,  \* self._action_history: agent -> action_type -> [timestamps]
    cooldowns,       \* self._cooldowns: agent -> action_type -> cooldown end (0: no entry)
    breach_history,  \* self._breach_history
    stats,           \* self._stats
    thr_ret,         \* what the Threshold Engine call that has just completed returned
    breach_log,      \* history variable: per pair, the last threshold breach's
                     \* cooldown end and whether reset_agent was called since
    \* ---- Fail-Mode Handler and Policy Cache ----
    fm_built,        \* how the handler was constructed
    fm_config,       \* self.config (FailModeConfig)
    cache,           \* PolicyCache._cache, in insertion order
    cache_counts,    \* PolicyCache._hits, _misses
    fail_counts,     \* FailModeHandler._fail_*_count
    fm_ret,          \* what the cache / handler call that has just completed returned
    written,         \* history variable: per cache key, what set() last stored
    fm_ops,          \* number of cache / handler calls made
    \* ---- Kill Executor (HardKill.kill) ----
    hk_config,       \* soft_timeout, verify_interval, max_verify_attempts
    kpc,             \* position inside HardKill.kill
    kill_call,       \* the call's locals: escalate, start_time, wait start, attempts
    proc,            \* the target process, as the OS sees it
    report,          \* the KillReport returned
    kill_obs,        \* history variable: when signals were sent and when the process died
    \* ---- Tree kill (BatchKill.kill_tree) ----
    kt_parent,       \* the process table: pid -> parent pid (0: a parent outside it)
    kt_call,         \* the call's position and locals: pc, pid, children, next index
    kt_killed,       \* history variable: the pids handed to HardKill.kill, in order
    kt_reports,      \* the list of KillReports being built
    \* ---- Agent Terminator (AgentTerminator) ----
    at_agents,       \* self._agents, in insertion order: <<[agent_id, pid], ...>>
    at_history,      \* self._kill_history
    at_call,         \* per calling thread: position and locals of its call
    at_obs,          \* history variable: registrations made, kill sequences run per agent
    \* ---- Network kill (NetworkKillManager and its firewall) ----
    nk_platform,     \* self.platform: platform.system()
    fw_root,         \* whether the firewall commands are permitted (run as root)
    fw_rules,        \* the rules of the OS firewall that carry the KILLSWITCH tag
    blocked_agents,  \* self._blocked_agents (its keys)
    nk_ret,          \* the call that has just completed and its result
    \* ---- Sliding Window Detector (SlidingWindowDetector) ----
    sw_thresholds,   \* self.thresholds: <<[metric, window, limit, action], ...>>
    sw_windows,      \* self.trackers: metric -> window size -> [events, total]
    sw_breaches,     \* self.breaches (self._breach_count is its length)
    sw_ret,          \* the call that has just completed and what it returned
    sw_recorded,     \* history variable: every event recorded, in call order
    sw_in_order,     \* history variable: no call so far was made with a time
                     \* before that of the call preceding it
    \* ---- Runtime Fence (RuntimeFence) ----
    rf_config,       \* self.config (FenceConfig)
    rf_killed,       \* self.killed
    rf_total_spent,  \* self.total_spent
    rf_action_log,   \* self.action_log: the allowed flag of each logged result
    rf_ret,          \* the call that has just completed and what it returned
    rf_calls,        \* number of validate calls made
    \* ---- check_action under its lock, called from several threads ----
    cc_threshold,    \* self.thresholds[action_type] of the one type checked
    cc_callbacks,    \* what self.on_breach / self.on_kill do when called
    cc_lock,         \* self._lock: the thread that holds it, or "free"
    cc_call,         \* per thread: where its check_action call is, and its outcome
    cc_history,      \* per agent: len(self._action_history[agent_id][action_type])
    cc_cooldowns,    \* per agent: self._cooldowns[agent_id][action_type]
    cc_checks,       \* number of check_action calls made
    \* ---- ExfiltrationDetector ----
    ex_time,            \* time.time()
    ex_data_volumes,    \* self._data_volumes: per agent, list of (ts, size)
    ex_unique_targets,  \* self._unique_targets: per agent, set of targets
    ex_ret,             \* the last record_data_access: what it compared, returned
    ex_accesses,        \* history: every access recorded, with its time
    \* ---- PolicyCache, one key, called from several threads ----
    pk_entry,        \* self._cache[cache_key]: absent, or a stale or fresh policy
    pk_first,        \* history: self._cache[cache_key] before the first call
    pk_call,         \* per thread: its call, where it is, and how it ended
    \* ---- Safe Resume (ResumeManager) ----
    rm_policy,             \* self.policy (ResumePolicy)
    rm_time,               \* time.time()
    rm_kill_history,       \* self.kill_history: agent_id, timestamp, resumed
    rm_resume_history,     \* self.resume_history: agent_id, timestamp
    rm_pending_approvals,  \* self.pending_approvals: per agent, absent or its state
    rm_gradual_state,      \* self.gradual_state: per agent, absent or its steps
    rm_ret,                \* the call that has just completed and its status
    rm_ops,                \* number of calls made
    rm_advances            \* number of times time.time() has moved on

thrVars  == <<thresholds, action_history, cooldowns, breach_history, stats,
              thr_ret, breach_log>>
failVars == <<fm_built, fm_config, cache, cache_counts, fail_counts, fm_ret,
              written, fm_ops>>
killVars == <<hk_config, kpc, kill_call, proc, report, kill_obs>>
treeVars == <<kt_parent, kt_call, kt_killed, kt_reports>>
\* the components besides the three above
termVars == <<at_agents, at_history, at_call, at_obs>>
netVars  == <<nk_platform, fw_root, fw_rules, blocked_agents, nk_ret>>
swVars   == <<sw_thresholds, sw_windows, sw_breaches, sw_ret, sw_recorded,
              sw_in_order>>
rfVars   == <<rf_config, rf_killed, rf_total_spent, rf_action_log, rf_ret,
              rf_calls>>
ccVars   == <<cc_threshold, cc_callbacks, cc_lock, cc_call, cc_history,
              cc_cooldowns, cc_checks>>
exVars   == <<ex_time, ex_data_volumes, ex_unique_targets, ex_ret, ex_accesses>>
pkVars   == <<pk_entry, pk_first, pk_call>>
rmVars   == <<rm_policy, rm_time, rm_kill_history, rm_resume_history,
              rm_pending_approvals, rm_gradual_state, rm_ret, rm_ops,
              rm_advances>>
extVars  == <<treeVars, termVars, netVars, swVars, rfVars, ccVars, exVars,
              pkVars, rmVars>>
\* what the actions of one of these components leave alone
exceptTreeVars == <<now, thrVars, failVars, killVars, termVars, netVars, swVars,
                    rfVars, ccVars, exVars, pkVars, rmVars>>
exceptTermVars == <<now, thrVars, failVars, killVars, treeVars, netVars, swVars,
                    rfVars, ccVars, exVars, pkVars, rmVars>>
exceptNetVars  == <<now, thrVars, failVars, killVars, treeVars, termVars, swVars,
                    rfVars, ccVars, exVars, pkVars, rmVars>>
exceptSwVars   == <<now, thrVars, failVars, killVars, treeVars, termVars, netVars,
                    rfVars, ccVars, exVars, pkVars, rmVars>>
exceptRfVars   == <<now, thrVars, failVars, killVars, treeVars, termVars, netVars,
                    swVars, ccVars, exVars, pkVars, rmVars>>
exceptCcVars   == <<now, thrVars, failVars, killVars, treeVars, termVars, netVars,
                    swVars, rfVars, exVars, pkVars, rmVars>>
exceptExVars   == <<now, thrVars, failVars, killVars, treeVars, termVars, netVars,
                    swVars, rfVars, ccVars, pkVars, rmVars>>
exceptPkVars   == <<now, thrVars, failVars, killVars, treeVars, termVars, netVars,
                    swVars, rfVars, ccVars, exVars, rmVars>>
exceptRmVars   == <<now, thrVars, failVars, killVars, treeVars, termVars, netVars,
                    swVars, rfVars, ccVars, exVars, pkVars>>
vars     == <<now, thrVars, failVars, killVars, extVars>>

(***************************************************************************)
(* Bounds of the model.                                                    *)
(***************************************************************************)
MaxTime == 3
MaxChecks == 3
MaxCount == 2


(***************************************************************************)
(*                         THRESHOLD ENGINE                                *)
(***************************************************************************)
Agents == {"a1"}
ActionTypes == {"file_read", "other"}
\* the action type the model's ThresholdConfigs are for; "other" never has one
ConfiguredType == "file_read"

\* ThresholdAction
ThresholdActionValues == {"warn", "block", "throttle", "kill"}

\* The threshold shapes the model draws configurations from, after
\* DEFAULT_THRESHOLDS: <<action_on_breach, cooldown_seconds, multiplier_for_kill>>.
\* multiplier_for_kill is a float; the model keeps it in halves (2 = 1.0,
\* 3 = 1.5, 4 = 2.0), which are exact in binary floating point.
ThresholdProfiles ==
    { <<"block", 3, 3>>, <<"kill", 1, 4>>, <<"throttle", 0, 2>> }
\* window_seconds of every configuration of the model, in ticks
WindowTicks == 2

NoThreshold ==
    [name |-> "none", action_type |-> "none", max_count |-> 0,
     window_seconds |-> 0, action_on_breach |-> "block",
     cooldown_seconds |-> 0, multiplier_for_kill |-> 2]

ThresholdConfigs(ty) ==
    { [name |-> "limit", action_type |-> ty, max_count |-> n,
       window_seconds |-> WindowTicks, action_on_breach |-> p[1],
       cooldown_seconds |-> p[2], multiplier_for_kill |-> p[3]] :
        n \in 1..MaxCount, p \in ThresholdProfiles }

NoBreach ==
    [agent_id |-> "none", threshold_name |-> "none", action_type |-> "none",
     count |-> 0, limit |-> 0, window_seconds |-> 0, breach_action |-> "block",
     should_kill |-> FALSE, timestamp |-> 0]

NoThrRet ==
    [op |-> "none", agent_id |-> "none", action_type |-> "none",
     allowed |-> FALSE, breach |-> NoBreach, at |-> 0]

\* mutant of IsInCooldown: the cooldown ends one tick early
IsInCooldownEndsEarly(a, ty, t) == t + 1 < cooldowns[a][ty]

\* _is_in_cooldown: a missing entry reads as 0, and now is never negative.
IsInCooldown(a, ty, t) == t < cooldowns[a][ty]

\* mutant of Pruned: the history is counted as it is
NotPruned(history, cutoff) == history

\* the list comprehension of _count_recent_actions: [ts for ts in history if ts > cutoff]
Pruned(history, cutoff) == SelectSeq(history, LAMBDA ts : ts > cutoff)

\* mutant of ThresholdExceeded: `>` for `>=`
ThresholdExceededStrict(count, max_count) == count > max_count

\* check_action: `if count >= threshold.max_count`
ThresholdExceeded(count, max_count) == count >= max_count

\* mutant of ShouldKill: the breach action is not looked at
ShouldKillByCountOnly(count, threshold) ==
    2 * count >= threshold.max_count * threshold.multiplier_for_kill

\* _handle_breach: kill_threshold = max_count * multiplier_for_kill;
\* should_kill = count >= kill_threshold or action_on_breach == KILL
ShouldKill(count, threshold) ==
    \/ 2 * count >= threshold.max_count * threshold.multiplier_for_kill
    \/ threshold.action_on_breach = "kill"

\* _handle_breach: the cooldown end it stores
CooldownEnd(t, threshold) == t + threshold.cooldown_seconds

CooldownBreach(a, ty, t) ==
    [agent_id |-> a, threshold_name |-> "Cooldown Active", action_type |-> ty,
     count |-> 0, limit |-> 0, window_seconds |-> 0, breach_action |-> "block",
     should_kill |-> FALSE, timestamp |-> t]

ThresholdBreach(a, threshold, count, t) ==
    [agent_id |-> a, threshold_name |-> threshold.name,
     action_type |-> threshold.action_type, count |-> count,
     limit |-> threshold.max_count, window_seconds |-> threshold.window_seconds,
     breach_action |-> threshold.action_on_breach,
     should_kill |-> ShouldKill(count, threshold), timestamp |-> t]

ThrInit ==
    /\ \E config \in ThresholdConfigs(ConfiguredType) :
          thresholds = [ty \in ActionTypes |->
                          IF ty = ConfiguredType THEN config ELSE NoThreshold]
    /\ action_history = [a \in Agents |-> [ty \in ActionTypes |-> << >>]]
    /\ cooldowns = [a \in Agents |-> [ty \in ActionTypes |-> 0]]
    /\ breach_history = << >>
    /\ stats = [total_checks |-> 0, total_allowed |-> 0, total_blocked |-> 0,
                total_kills |-> 0,
                breaches_by_type |-> [ty \in ActionTypes |-> 0]]
    /\ thr_ret = NoThrRet
    /\ breach_log = [a \in Agents |-> [ty \in ActionTypes |->
                        [until |-> 0, reset |-> FALSE]]]

ThrIdle ==
    /\ thresholds = [ty \in ActionTypes |-> NoThreshold]
    /\ action_history = [a \in Agents |-> [ty \in ActionTypes |-> << >>]]
    /\ cooldowns = [a \in Agents |-> [ty \in ActionTypes |-> 0]]
    /\ breach_history = << >>
    /\ stats = [total_checks |-> 0, total_allowed |-> 0, total_blocked |-> 0,
                total_kills |-> 0,
                breaches_by_type |-> [ty \in ActionTypes |-> 0]]
    /\ thr_ret = NoThrRet
    /\ breach_log = [a \in Agents |-> [ty \in ActionTypes |->
                        [until |-> 0, reset |-> FALSE]]]

\* mutant of CheckActionCooldown: the refusal is not counted as blocked
CheckActionCooldownUncounted(a, ty) ==
    /\ IsInCooldown(a, ty, now)
    /\ stats' = [stats EXCEPT !.total_checks = @ + 1]
    /\ thr_ret' = [op |-> "check_action", agent_id |-> a, action_type |-> ty,
                   allowed |-> FALSE, breach |-> CooldownBreach(a, ty, now),
                   at |-> now]
    /\ UNCHANGED <<thresholds, action_history, cooldowns, breach_history,
                   breach_log>>

\* check_action, the cooldown branch: blocked, nothing counted or recorded
CheckActionCooldown(a, ty) ==
    /\ IsInCooldown(a, ty, now)
    /\ stats' = [stats EXCEPT !.total_checks = @ + 1, !.total_blocked = @ + 1]
    /\ thr_ret' = [op |-> "check_action", agent_id |-> a, action_type |-> ty,
                   allowed |-> FALSE, breach |-> CooldownBreach(a, ty, now),
                   at |-> now]
    /\ UNCHANGED <<thresholds, action_history, cooldowns, breach_history,
                   breach_log>>

\* check_action, no ThresholdConfig for the type: record and allow
CheckActionUnconfigured(a, ty) ==
    /\ ~IsInCooldown(a, ty, now)
    /\ thresholds[ty] = NoThreshold
    /\ action_history' = [action_history EXCEPT ![a][ty] = Append(@, now)]
    /\ stats' = [stats EXCEPT !.total_checks = @ + 1, !.total_allowed = @ + 1]
    /\ thr_ret' = [op |-> "check_action", agent_id |-> a, action_type |-> ty,
                   allowed |-> TRUE, breach |-> NoBreach, at |-> now]
    /\ UNCHANGED <<thresholds, cooldowns, breach_history, breach_log>>

\* check_action, threshold exceeded: _handle_breach
CheckActionBreach(a, ty) ==
    LET threshold == thresholds[ty]
        pruned == Pruned(action_history[a][ty], now - threshold.window_seconds)
        count == Len(pruned)
        breach == ThresholdBreach(a, threshold, count, now)
    IN  /\ ~IsInCooldown(a, ty, now)
        /\ threshold # NoThreshold
        /\ ThresholdExceeded(count, threshold.max_count)
        /\ action_history' = [action_history EXCEPT ![a][ty] = pruned]
        /\ stats' = [stats EXCEPT
                        !.total_checks = @ + 1,
                        !.total_blocked = @ + 1,
                        !.breaches_by_type[threshold.action_type] = @ + 1,
                        !.total_kills = IF breach.should_kill THEN @ + 1 ELSE @]
        /\ breach_history' = Append(breach_history, breach)
        /\ cooldowns' = [cooldowns EXCEPT
                            ![a][threshold.action_type] = CooldownEnd(now, threshold)]
        /\ breach_log' = [breach_log EXCEPT ![a][ty] =
                            [until |-> now + threshold.cooldown_seconds,
                             reset |-> FALSE]]
        /\ thr_ret' = [op |-> "check_action", agent_id |-> a, action_type |-> ty,
                       allowed |-> FALSE, breach |-> breach, at |-> now]
        /\ UNCHANGED thresholds

\* check_action, under the threshold: record and allow
CheckActionAllowed(a, ty) ==
    LET threshold == thresholds[ty]
        pruned == Pruned(action_history[a][ty], now - threshold.window_seconds)
        count == Len(pruned)
    IN  /\ ~IsInCooldown(a, ty, now)
        /\ threshold # NoThreshold
        /\ ~ThresholdExceeded(count, threshold.max_count)
        /\ action_history' = [action_history EXCEPT ![a][ty] = Append(pruned, now)]
        /\ stats' = [stats EXCEPT !.total_checks = @ + 1, !.total_allowed = @ + 1]
        /\ thr_ret' = [op |-> "check_action", agent_id |-> a, action_type |-> ty,
                       allowed |-> TRUE, breach |-> NoBreach, at |-> now]
        /\ UNCHANGED <<thresholds, cooldowns, breach_history, breach_log>>

CheckAction(a, ty) ==
    /\ stats.total_checks < MaxChecks
    /\ \/ CheckActionCooldown(a, ty)
       \/ CheckActionUnconfigured(a, ty)
       \/ CheckActionBreach(a, ty)
       \/ CheckActionAllowed(a, ty)
    /\ UNCHANGED <<now, failVars, killVars, extVars>>

\* reset_agent: drops the agent's history and cooldowns
ResetAgent(a) ==
    /\ action_history' = [action_history EXCEPT ![a] = [ty \in ActionTypes |-> << >>]]
    /\ cooldowns' = [cooldowns EXCEPT ![a] = [ty \in ActionTypes |-> 0]]
    /\ breach_log' = [breach_log EXCEPT ![a] =
                        [ty \in ActionTypes |-> [@[ty] EXCEPT !.reset = TRUE]]]
    /\ thr_ret' = NoThrRet
    /\ UNCHANGED <<thresholds, breach_history, stats>>
    /\ UNCHANGED <<now, failVars, killVars, extVars>>

\* add_threshold: adds or replaces the configuration of config.action_type
AddThreshold(config) ==
    /\ thresholds' = [thresholds EXCEPT ![config.action_type] = config]
    /\ thr_ret' = NoThrRet
    /\ UNCHANGED <<action_history, cooldowns, breach_history, stats, breach_log>>
    /\ UNCHANGED <<now, failVars, killVars, extVars>>

\* remove_threshold
RemoveThreshold(ty) ==
    /\ thresholds' = [thresholds EXCEPT ![ty] = NoThreshold]
    /\ thr_ret' = NoThrRet
    /\ UNCHANGED <<action_history, cooldowns, breach_history, stats, breach_log>>
    /\ UNCHANGED <<now, failVars, killVars, extVars>>

(***************************************************************************)
(*                  FAIL-MODE HANDLER AND POLICY CACHE                     *)
(***************************************************************************)
MaxFmOps == 2
MaxEntries == 2

\* Strings are sequences of characters (":" is the separator the code
\* writes between fields; the other tokens stand for runs of other characters).
Actions == { <<"a">>, <<"a", ":", "b">> }
Targets == { <<"c">> }
RiskScores == {0, 85}
\* validation results that get cached: <<allowed, risk_score>>
Decisions == { <<TRUE, 0>>, <<FALSE, 85>> }
TtlChoices == {1, 2}

\* FailModeConfig.max_cache_entries default
DefaultMaxCacheEntries == 10000
\* _cleanup_oldest: remove_count = len(sorted_entries) // 10
EvictionDivisor == 10

\* FailMode
FailModes == {"closed", "cached", "open"}

\* mode strings handed to create_fail_mode_handler, as character sequences
ModeStrings ==
    { <<"c","l","o","s","e","d">>, <<"c","a","c","h","e","d">>,
      <<"o","p","e","n">>, <<"O","P","E","N">>, <<"O","p","e","n">>,
      <<"o","f","f">>, << >> }

\* str.lower(), on the characters the model uses
LowerChar(c) ==
    CASE c = "O" -> "o"
      [] c = "P" -> "p"
      [] c = "E" -> "e"
      [] c = "N" -> "n"
      [] OTHER -> c

Lower(s) == [i \in DOMAIN s |-> LowerChar(s[i])]

\* mutant of DefaultFailMode
DefaultFailModeOpen == "open"

\* FailModeConfig: mode: FailMode = FailMode.CLOSED
DefaultFailMode == "closed"

\* mutant of ModeFromString: an unrecognised string falls through to OPEN
ModeFromStringFallsOpen(s) ==
    CASE s = <<"c","l","o","s","e","d">> -> "closed"
      [] s = <<"c","a","c","h","e","d">> -> "cached"
      [] OTHER -> "open"

\* create_fail_mode_handler: mode_map.get(mode.lower(), FailMode.CLOSED)
ModeFromString(s) ==
    CASE Lower(s) = <<"c","l","o","s","e","d">> -> "closed"
      [] Lower(s) = <<"c","a","c","h","e","d">> -> "cached"
      [] Lower(s) = <<"o","p","e","n">> -> "open"
      [] OTHER -> "closed"

\* f"{value}" of a bool or a number, as one token
Render(v) == <<ToString(v)>>

\* PolicyCache._make_key: f"{action}::{target}"
MakeKey(action, target) == action \o <<":", ":">> \o target

CacheKeys == { MakeKey(a, t) : a \in Actions, t \in Targets }

\* CachedPolicy._compute_hash: the string that is hashed,
\* f"{action}:{target}:{allowed}:{risk_score}:{cached_at}".  The truncated
\* SHA-256 of it is modelled as the string itself (no collisions).
ComputeHash(p) ==
    p.action \o <<":">> \o p.target \o <<":">> \o Render(p.allowed)
      \o <<":">> \o Render(p.risk_score) \o <<":">> \o Render(p.cached_at)

\* CachedPolicy.verify_integrity
VerifyIntegrity(p) == p.policy_hash = ComputeHash(p)

\* CachedPolicy.is_expired: time.time() > self.expires_at
IsExpired(p, t) == t > p.expires_at

NoPolicy ==
    [action |-> << >>, target |-> << >>, allowed |-> FALSE, risk_score |-> 0,
     cached_at |-> 0, expires_at |-> 0, policy_hash |-> << >>]

\* mutant of NewPolicy: the TTL is not added
NewPolicyNoTtl(action, target, allowed, risk_score, t, ttl) ==
    [action |-> action, target |-> target, allowed |-> allowed,
     risk_score |-> risk_score, cached_at |-> t, expires_at |-> t,
     policy_hash |->
        action \o <<":">> \o target \o <<":">> \o Render(allowed)
          \o <<":">> \o Render(risk_score) \o <<":">> \o Render(t)]

\* the CachedPolicy that PolicyCache.set builds
NewPolicy(action, target, allowed, risk_score, t, ttl) ==
    LET p == [action |-> action, target |-> target, allowed |-> allowed,
              risk_score |-> risk_score, cached_at |-> t,
              expires_at |-> t + ttl, policy_hash |-> << >>]
    IN  [p EXCEPT !.policy_hash = ComputeHash(p)]

\* position of a key in the cache (a dict in insertion order), 0 if absent
KeyIndex(c, k) ==
    IF \E i \in 1..Len(c) : c[i].key = k
    THEN CHOOSE i \in 1..Len(c) : c[i].key = k
    ELSE 0

RemoveAt(c, i) == SubSeq(c, 1, i - 1) \o SubSeq(c, i + 1, Len(c))

\* dict assignment: in place for an existing key, appended for a new one
Store(c, k, p) ==
    IF KeyIndex(c, k) = 0
    THEN Append(c, [key |-> k, policy |-> p])
    ELSE [c EXCEPT ![KeyIndex(c, k)] = [key |-> k, policy |-> p]]

\* the first entry of sorted(items, key=cached_at): the sort is stable
OldestIndex(c) ==
    CHOOSE i \in 1..Len(c) :
        \A j \in 1..Len(c) :
            \/ c[j].policy.cached_at > c[i].policy.cached_at
            \/ (c[j].policy.cached_at = c[i].policy.cached_at /\ j >= i)

RECURSIVE RemoveOldest(_, _)
RemoveOldest(c, n) ==
    IF n = 0 \/ Len(c) = 0 THEN c
    ELSE RemoveOldest(RemoveAt(c, OldestIndex(c)), n - 1)

\* PolicyCache._cleanup_oldest
CleanupOldest(c) == RemoveOldest(c, Len(c) \div EvictionDivisor)

\* PolicyCache.set: store, then enforce max entries
CacheAfterSet(c, action, target, allowed, risk_score, t, cfg) ==
    LET stored == Store(c, MakeKey(action, target),
                        NewPolicy(action, target, allowed, risk_score, t,
                                  cfg.cache_ttl_seconds))
    IN  IF Len(stored) > cfg.max_cache_entries THEN CleanupOldest(stored)
        ELSE stored

\* mutant of CacheGet: expiry is not checked
CacheGetIgnoresExpiry(c, action, target, t) ==
    LET i == KeyIndex(c, MakeKey(action, target))
    IN  IF i = 0 THEN [found |-> FALSE, policy |-> NoPolicy, cache |-> c]
        ELSE IF ~VerifyIntegrity(c[i].policy)
        THEN [found |-> FALSE, policy |-> NoPolicy, cache |-> RemoveAt(c, i)]
        ELSE [found |-> TRUE, policy |-> c[i].policy, cache |-> c]

\* PolicyCache.get: <<policy or NoPolicy, found, cache afterwards>>
CacheGet(c, action, target, t) ==
    LET i == KeyIndex(c, MakeKey(action, target))
    IN  IF i = 0 THEN [found |-> FALSE, policy |-> NoPolicy, cache |-> c]
        ELSE IF IsExpired(c[i].policy, t)
        THEN [found |-> FALSE, policy |-> NoPolicy, cache |-> RemoveAt(c, i)]
        ELSE IF ~VerifyIntegrity(c[i].policy)
        THEN [found |-> FALSE, policy |-> NoPolicy, cache |-> RemoveAt(c, i)]
        ELSE [found |-> TRUE, policy |-> c[i].policy, cache |-> c]

NoFmRet ==
    [op |-> "none", action |-> << >>, target |-> << >>, found |-> FALSE,
     policy |-> NoPolicy, allowed |-> FALSE, risk_score |-> 0,
     reason |-> "none", at |-> 0]

NotWritten ==
    [set |-> FALSE, allowed |-> FALSE, risk_score |-> 0, at |-> 0,
     policy |-> NoPolicy]

\* How a handler comes to exist:
\*   default  - FailModeHandler() / FailModeConfig with no mode given
\*   factory  - create_fail_mode_handler(mode=<string>); "nomode": no mode given
\*   explicit - FailModeConfig(mode=<FailMode>)
FailBuilds ==
    { [how |-> "default", mode_string |-> << >>, mode |-> "none"] }
    \cup { [how |-> "factory", mode_string |-> s, mode |-> "none"] :
             s \in ModeStrings }
    \cup { [how |-> "factory_nomode", mode_string |-> << >>, mode |-> "none"] }
    \cup { [how |-> "explicit", mode_string |-> << >>, mode |-> m] :
             m \in FailModes }

\* the mode the construction yields
BuiltMode(b) ==
    CASE b.how = "default" -> DefaultFailMode
      [] b.how = "factory" -> ModeFromString(b.mode_string)
      [] b.how = "factory_nomode" -> ModeFromString(<<"c","l","o","s","e","d">>)
      [] OTHER -> b.mode

\* FailModeHandler.__init__: a handler built in any of the ways above, with
\* the default max_cache_entries and an empty cache
FailInit ==
    /\ fm_built \in FailBuilds
    /\ \E ttl \in TtlChoices :
          fm_config = [mode |-> BuiltMode(fm_built),
                       cache_ttl_seconds |-> ttl,
                       max_cache_entries |-> DefaultMaxCacheEntries]
    /\ cache = << >>
    /\ cache_counts = [hits |-> 0, misses |-> 0]
    /\ fail_counts = [closed |-> 0, cached |-> 0, open |-> 0,
                      last_failure_time |-> -1]
    /\ fm_ret = NoFmRet
    /\ written = [k \in CacheKeys |-> NotWritten]
    /\ fm_ops = [calls |-> 0, tampered |-> FALSE]

\* PolicyCache.__init__: a cache of its own, built from a FailModeConfig that
\* gives cache_ttl_seconds and max_cache_entries and no mode
PolicyCacheInit ==
    /\ fm_built = [how |-> "default", mode_string |-> << >>, mode |-> "none"]
    /\ \E ttl \in TtlChoices, m \in 1..MaxEntries :
          fm_config = [mode |-> DefaultFailMode, cache_ttl_seconds |-> ttl,
                       max_cache_entries |-> m]
    /\ cache = << >>
    /\ cache_counts = [hits |-> 0, misses |-> 0]
    /\ fail_counts = [closed |-> 0, cached |-> 0, open |-> 0,
                      last_failure_time |-> -1]
    /\ fm_ret = NoFmRet
    /\ written = [k \in CacheKeys |-> NotWritten]
    /\ fm_ops = [calls |-> 0, tampered |-> FALSE]

FailIdle ==
    /\ fm_built = [how |-> "default", mode_string |-> << >>, mode |-> "none"]
    /\ fm_config = [mode |-> DefaultFailMode, cache_ttl_seconds |-> 1,
                    max_cache_entries |-> DefaultMaxCacheEntries]
    /\ cache = << >>
    /\ cache_counts = [hits |-> 0, misses |-> 0]
    /\ fail_counts = [closed |-> 0, cached |-> 0, open |-> 0,
                      last_failure_time |-> -1]
    /\ fm_ret = NoFmRet
    /\ written = [k \in CacheKeys |-> NotWritten]
    /\ fm_ops = [calls |-> 0, tampered |-> FALSE]

\* PolicyCache.get(action, target)
Get(action, target) ==
    LET g == CacheGet(cache, action, target, now)
    IN  /\ fm_ops.calls < MaxFmOps
        /\ fm_ops' = [fm_ops EXCEPT !.calls = @ + 1]
        /\ cache' = g.cache
        /\ cache_counts' = IF g.found
                           THEN [cache_counts EXCEPT !.hits = @ + 1]
                           ELSE [cache_counts EXCEPT !.misses = @ + 1]
        /\ fm_ret' = [NoFmRet EXCEPT !.op = "get", !.action = action,
                        !.target = target, !.found = g.found,
                        !.policy = g.policy, !.at = now]
        /\ UNCHANGED <<fm_built, fm_config, fail_counts, written>>
        /\ UNCHANGED <<now, thrVars, killVars, extVars>>

\* PolicyCache.set / FailModeHandler.cache_result
Set(action, target, allowed, risk_score) ==
    LET k == MakeKey(action, target)
        c2 == CacheAfterSet(cache, action, target, allowed, risk_score, now,
                            fm_config)
        i == KeyIndex(c2, k)
    IN  /\ fm_ops.calls < MaxFmOps
        /\ fm_ops' = [fm_ops EXCEPT !.calls = @ + 1]
        /\ cache' = c2
        /\ written' = [written EXCEPT ![k] =
                          [set |-> TRUE, allowed |-> allowed,
                           risk_score |-> risk_score, at |-> now,
                           policy |-> IF i = 0 THEN NoPolicy ELSE c2[i].policy]]
        /\ fm_ret' = [NoFmRet EXCEPT !.op = "set", !.action = action,
                        !.target = target, !.at = now]
        /\ UNCHANGED <<fm_built, fm_config, cache_counts, fail_counts>>
        /\ UNCHANGED <<now, thrVars, killVars, extVars>>

\* FailModeHandler.cache_result
CacheResult(action, target, allowed, risk_score) ==
    Set(action, target, allowed, risk_score)

\* PolicyCache.invalidate(action, target); has_a / has_t: the argument is given
InvalidatedCache(c, has_a, action, has_t, target) ==
    IF ~has_a /\ ~has_t THEN << >>
    ELSE IF has_a /\ has_t
    THEN (IF KeyIndex(c, MakeKey(action, target)) = 0 THEN c
          ELSE RemoveAt(c, KeyIndex(c, MakeKey(action, target))))
    ELSE SelectSeq(c, LAMBDA e :
            ~ \/ (has_a /\ e.policy.action = action)
              \/ (has_t /\ e.policy.target = target))

Invalidate(has_a, action, has_t, target) ==
    /\ fm_ops.calls < MaxFmOps
    /\ fm_ops' = [fm_ops EXCEPT !.calls = @ + 1]
    /\ cache' = InvalidatedCache(cache, has_a, action, has_t, target)
    /\ fm_ret' = [NoFmRet EXCEPT !.op = "invalidate", !.at = now]
    /\ UNCHANGED <<fm_built, fm_config, cache_counts, fail_counts, written>>
    /\ UNCHANGED <<now, thrVars, killVars, extVars>>

\* _handle_fail_closed
HandleFailClosed(action, target) ==
    /\ fail_counts' = [fail_counts EXCEPT !.closed = @ + 1,
                                          !.last_failure_time = now]
    /\ fm_ret' = [NoFmRet EXCEPT !.op = "on_validation_failure",
                    !.action = action, !.target = target, !.allowed = FALSE,
                    !.risk_score = 100, !.reason = "FAIL-CLOSED", !.at = now]
    /\ UNCHANGED <<cache, cache_counts>>

\* _handle_fail_cached
HandleFailCached(action, target) ==
    LET g == CacheGet(cache, action, target, now)
    IN  /\ cache' = g.cache
        /\ cache_counts' = IF g.found
                           THEN [cache_counts EXCEPT !.hits = @ + 1]
                           ELSE [cache_counts EXCEPT !.misses = @ + 1]
        /\ IF g.found
           THEN /\ fail_counts' = [fail_counts EXCEPT !.cached = @ + 1,
                                                     !.last_failure_time = now]
                /\ fm_ret' = [NoFmRet EXCEPT !.op = "on_validation_failure",
                                !.action = action, !.target = target,
                                !.found = TRUE, !.policy = g.policy,
                                !.allowed = g.policy.allowed,
                                !.risk_score = g.policy.risk_score,
                                !.reason = "FAIL-CACHED", !.at = now]
           ELSE /\ fail_counts' = [fail_counts EXCEPT !.closed = @ + 1,
                                                     !.last_failure_time = now]
                /\ fm_ret' = [NoFmRet EXCEPT !.op = "on_validation_failure",
                                !.action = action, !.target = target,
                                !.allowed = FALSE, !.risk_score = 100,
                                !.reason = "FAIL-CACHED: no cached policy",
                                !.at = now]

\* _handle_fail_open
HandleFailOpen(action, target) ==
    /\ fail_counts' = [fail_counts EXCEPT !.open = @ + 1,
                                          !.last_failure_time = now]
    /\ fm_ret' = [NoFmRet EXCEPT !.op = "on_validation_failure",
                    !.action = action, !.target = target, !.allowed = TRUE,
                    !.risk_score = 0, !.reason = "FAIL-OPEN", !.at = now]
    /\ UNCHANGED <<cache, cache_counts>>

\* FailModeHandler.on_validation_failure
OnValidationFailure(action, target) ==
    /\ fm_ops.calls < MaxFmOps
    /\ fm_ops' = [fm_ops EXCEPT !.calls = @ + 1]
    /\ IF fm_config.mode = "closed" THEN HandleFailClosed(action, target)
       ELSE IF fm_config.mode = "cached" THEN HandleFailCached(action, target)
       ELSE IF fm_config.mode = "open" THEN HandleFailOpen(action, target)
       ELSE HandleFailClosed(action, target)
    /\ UNCHANGED <<fm_built, fm_config, written>>
    /\ UNCHANGED <<now, thrVars, killVars, extVars>>

\* A stored CachedPolicy is a plain mutable record (and is reloaded from a
\* file anyone can edit): one of its fields is altered after set() stored it.
TamperedPolicy(p, fld, v) ==
    CASE fld = "action" -> [p EXCEPT !.action = v]
      [] fld = "target" -> [p EXCEPT !.target = v]
      [] fld = "allowed" -> [p EXCEPT !.allowed = v]
      [] fld = "risk_score" -> [p EXCEPT !.risk_score = v]
      [] fld = "cached_at" -> [p EXCEPT !.cached_at = v]
      [] OTHER -> [p EXCEPT !.expires_at = v]

FieldValues(fld) ==
    CASE fld = "action" -> Actions
      [] fld = "target" -> Targets \cup { <<"x">> }
      [] fld = "allowed" -> BOOLEAN
      [] fld = "risk_score" -> RiskScores
      [] OTHER -> {0, MaxTime + 1}

PolicyFields ==
    {"action", "target", "allowed", "risk_score", "cached_at", "expires_at"}

Tamper(i, fld, v) ==
    /\ ~fm_ops.tampered
    /\ i \in 1..Len(cache)
    /\ TamperedPolicy(cache[i].policy, fld, v) # cache[i].policy
    /\ fm_ops' = [fm_ops EXCEPT !.tampered = TRUE]
    /\ cache' = [cache EXCEPT ![i].policy = TamperedPolicy(@, fld, v)]
    /\ UNCHANGED <<fm_built, fm_config, cache_counts, fail_counts, fm_ret, written>>
    /\ UNCHANGED <<now, thrVars, killVars, extVars>>

(***************************************************************************)
(*                     KILL EXECUTOR: HardKill.kill                        *)
(***************************************************************************)
MaxVerifyAttempts == 2
MaxOvershoot == 1
SoftTimeoutChoices == {2, 3}
VerifyIntervalChoices == {1, 2}
OsTypes == {"Linux", "Windows"}

\* KillResult
KillResults ==
    {"success", "already_dead", "soft", "hard", "failed", "denied", "zombie"}

NoReport ==
    [result |-> "none", soft_signal_sent |-> FALSE, hard_signal_sent |-> FALSE,
     time_to_death_ms |-> -1, error |-> "none", timestamp |-> -1]

\* KillReport(pid, result, ...): unset fields keep the dataclass defaults
KillReport(result, soft_sent, hard_sent, elapsed, error, t) ==
    [result |-> result, soft_signal_sent |-> soft_sent,
     hard_signal_sent |-> hard_sent, time_to_death_ms |-> elapsed,
     error |-> error, timestamp |-> t]

\* is_process_alive: os.kill(pid, 0) / tasklist
IsProcessAlive == proc.alive

\* _send_soft_kill / _send_hard_kill, the value returned:
\*   Unix: ProcessLookupError (already dead) -> True, PermissionError -> False
\*   Windows: taskkill's return code is 0
SendSucceeds ==
    IF hk_config.os_type = "Windows"
    THEN proc.alive /\ proc.signalable
    ELSE ~proc.alive \/ proc.signalable

\* the signal reaches the process
SignalDelivered == proc.alive /\ proc.signalable

\* mutant of WaitContinues: the wait gives up one tick early
WaitContinuesCutShort(t, start, timeout) == t - start < timeout - 1

\* _wait_for_death: `while time.time() - start < timeout`
WaitContinues(t, start, timeout) == t - start < timeout

\* mutant of VerifyContinues: the verification gives up one poll early
VerifyContinuesCutShort(attempts, max_attempts) == attempts < max_attempts - 1

\* mutant of VerifyContinues: the verification loop runs once more
VerifyContinuesOnceMore(attempts, max_attempts) == attempts < max_attempts + 1

\* _verify_death: `for _ in range(self.max_verify_attempts)`, then one last poll
VerifyContinues(attempts, max_attempts) == attempts < max_attempts

NoKillCall ==
    [escalate |-> TRUE, start_time |-> 0, wait_start |-> 0, attempts |-> 0]

NoKillObs ==
    [alive_at_start |-> FALSE, soft_at |-> -1, hard_at |-> -1, died_at |-> -1,
     died_in_call |-> FALSE, polls |-> 0, last_alive_at |-> -1]

KillInit ==
    /\ hk_config \in [soft_timeout : SoftTimeoutChoices,
                       verify_interval : VerifyIntervalChoices,
                       max_verify_attempts : 1..MaxVerifyAttempts,
                       os_type : OsTypes]
    /\ proc \in [alive : BOOLEAN, signalable : BOOLEAN, handles_term : BOOLEAN,
                 dies_on_kill : BOOLEAN, term_pending : {FALSE},
                 kill_pending : {FALSE}]
    /\ kpc = "idle"
    /\ kill_call = NoKillCall
    /\ report = NoReport
    /\ kill_obs = NoKillObs

KillIdle ==
    /\ hk_config = [soft_timeout |-> 2, verify_interval |-> 1,
                    max_verify_attempts |-> 1, os_type |-> "Linux"]
    /\ proc = [alive |-> FALSE, signalable |-> TRUE, handles_term |-> TRUE,
               dies_on_kill |-> TRUE, term_pending |-> FALSE,
               kill_pending |-> FALSE]
    /\ kpc = "idle"
    /\ kill_call = NoKillCall
    /\ report = NoReport
    /\ kill_obs = NoKillObs

Return(r) ==
    /\ report' = r
    /\ kpc' = "done"

\* kill(pid, escalate): start_time = time.time(); step 1, is the process alive?
KillStart(escalate) ==
    /\ kpc = "idle"
    /\ kill_call' = [NoKillCall EXCEPT !.escalate = escalate, !.start_time = now]
    /\ kill_obs' = [kill_obs EXCEPT !.alive_at_start = proc.alive, !.polls = @ + 1]
    /\ IF ~IsProcessAlive
       THEN Return(KillReport("already_dead", FALSE, FALSE, 0, "none", now))
       ELSE kpc' = "send_soft" /\ UNCHANGED report
    /\ UNCHANGED <<hk_config, proc>>
    /\ UNCHANGED <<now, thrVars, failVars, extVars>>

\* step 2: _send_soft_kill
SendSoftKill ==
    /\ kpc = "send_soft"
    /\ IF SendSucceeds
       THEN /\ proc' = [proc EXCEPT !.term_pending = @ \/ SignalDelivered]
            /\ kill_obs' = [kill_obs EXCEPT !.soft_at = now]
            /\ kill_call' = [kill_call EXCEPT !.wait_start = now]
            /\ kpc' = "wait_test"
            /\ UNCHANGED report
       ELSE /\ Return(KillReport("denied", FALSE, FALSE, -1,
                                 "Failed to send SIGTERM - check permissions",
                                 now))
            /\ UNCHANGED <<proc, kill_obs, kill_call>>
    /\ UNCHANGED hk_config
    /\ UNCHANGED <<now, thrVars, failVars, extVars>>

\* step 3: _wait_for_death, the loop test and the liveness poll
WaitForDeathTest ==
    /\ kpc = "wait_test"
    /\ IF WaitContinues(now, kill_call.wait_start, hk_config.soft_timeout)
       THEN /\ kill_obs' = [kill_obs EXCEPT
                              !.polls = @ + 1,
                              !.last_alive_at =
                                  IF IsProcessAlive THEN now ELSE @]
            /\ IF ~IsProcessAlive
               THEN Return(KillReport("soft", TRUE, FALSE,
                                      now - kill_call.start_time, "none", now))
               ELSE kpc' = "wait_sleep" /\ UNCHANGED report
       ELSE /\ UNCHANGED kill_obs
            /\ IF ~kill_call.escalate
               THEN Return(KillReport("failed", TRUE, FALSE, -1,
                                      "Process did not respond to SIGTERM and escalation is disabled",
                                      now))
               ELSE kpc' = "send_hard" /\ UNCHANGED report
    /\ UNCHANGED <<hk_config, proc, kill_call>>
    /\ UNCHANGED <<now, thrVars, failVars, extVars>>

\* _wait_for_death: time.sleep(self.verify_interval), which may overshoot
WaitForDeathSleep(over) ==
    /\ kpc = "wait_sleep"
    /\ now' = now + hk_config.verify_interval + over
    /\ kpc' = "wait_test"
    /\ UNCHANGED <<hk_config, proc, kill_call, report, kill_obs>>
    /\ UNCHANGED <<thrVars, failVars, extVars>>

\* step 4: _send_hard_kill
SendHardKill ==
    /\ kpc = "send_hard"
    /\ IF SendSucceeds
       THEN /\ proc' = [proc EXCEPT !.kill_pending = @ \/ SignalDelivered]
            /\ kill_obs' = [kill_obs EXCEPT !.hard_at = now]
            /\ kill_call' = [kill_call EXCEPT !.attempts = 0]
            /\ kpc' = "verify_poll"
            /\ UNCHANGED report
       ELSE /\ Return(KillReport("failed", TRUE, FALSE, -1,
                                 "Failed to send SIGKILL", now))
            /\ UNCHANGED <<proc, kill_obs, kill_call>>
    /\ UNCHANGED hk_config
    /\ UNCHANGED <<now, thrVars, failVars, extVars>>

\* step 5: _verify_death, one poll of the loop, or the final poll after it
VerifyDeathPoll ==
    /\ kpc = "verify_poll"
    /\ kill_obs' = [kill_obs EXCEPT !.polls = @ + 1]
    /\ IF ~IsProcessAlive
       THEN Return(KillReport("hard", TRUE, TRUE,
                              now - kill_call.start_time, "none", now))
       ELSE IF VerifyContinues(kill_call.attempts, hk_config.max_verify_attempts)
       THEN kpc' = "verify_sleep" /\ UNCHANGED report
       ELSE Return(KillReport("zombie", TRUE, TRUE,
                              now - kill_call.start_time,
                              "Process survived SIGKILL - may be zombie or kernel-protected",
                              now))
    /\ UNCHANGED <<hk_config, proc, kill_call>>
    /\ UNCHANGED <<now, thrVars, failVars, extVars>>

\* _verify_death: time.sleep(self.verify_interval)
VerifyDeathSleep(over) ==
    /\ kpc = "verify_sleep"
    /\ now' = now + hk_config.verify_interval + over
    /\ kill_call' = [kill_call EXCEPT !.attempts = @ + 1]
    /\ kpc' = "verify_poll"
    /\ UNCHANGED <<hk_config, proc, report, kill_obs>>
    /\ UNCHANGED <<thrVars, failVars, extVars>>

\* the target process exits: on the graceful signal if it handles it, on the
\* forceful one if it can be killed
ProcExits ==
    /\ proc.alive
    /\ \/ (proc.term_pending /\ proc.handles_term)
       \/ (proc.kill_pending /\ proc.dies_on_kill)
    /\ proc' = [proc EXCEPT !.alive = FALSE]
    /\ kill_obs' = [kill_obs EXCEPT !.died_at = now,
                                    !.died_in_call = kpc \notin {"idle", "done"}]
    /\ UNCHANGED <<hk_config, kpc, kill_call, report>>
    /\ UNCHANGED <<now, thrVars, failVars, extVars>>

\* the caller loses the right to signal the target (the target changes its
\* owner): os.kill raises PermissionError from then on
PermissionRevoked ==
    /\ proc.alive
    /\ proc.signalable
    /\ proc' = [proc EXCEPT !.signalable = FALSE]
    /\ UNCHANGED <<hk_config, kpc, kill_call, report, kill_obs>>
    /\ UNCHANGED <<now, thrVars, failVars, extVars>>

(***************************************************************************)
(*                     TREE KILL: BatchKill.kill_tree                      *)
(***************************************************************************)
MaxProcs == 4

Pids == 1..MaxProcs

\* what HardKill.kill reports for one pid of the tree
TreeKillResults == {"soft", "failed"}

\* the parent chain of p, as far as it stays inside the process table
RECURSIVE AncestorsIn(_, _, _)
AncestorsIn(parent, p, fuel) ==
    IF fuel = 0 \/ parent[p] = 0 THEN {}
    ELSE {parent[p]} \cup AncestorsIn(parent, parent[p], fuel - 1)

\* process tables: every process has one parent and no process is its own
\* ancestor
ProcessTables ==
    { parent \in [Pids -> 0..MaxProcs] :
        \A p \in Pids : p \notin AncestorsIn(parent, p, MaxProcs) }

\* a set of pids as the lines pgrep / wmic print, in ascending order
RECURSIVE Ascending(_)
Ascending(S) ==
    IF S = {} THEN << >>
    ELSE LET m == CHOOSE x \in S : \A y \in S : x <= y
         IN  <<m>> \o Ascending(S \ {m})

\* pgrep -P pid / wmic ... ParentProcessId=pid
DirectChildren(pid) == Ascending({ c \in Pids : kt_parent[c] = pid })

\* _get_children_unix / _get_children_windows: each child, followed by its
\* own descendants
RECURSIVE GetChildren(_)
RECURSIVE GetChildrenFrom(_, _)
GetChildrenFrom(lines, i) ==
    IF i > Len(lines) THEN << >>
    ELSE <<lines[i]>> \o GetChildren(lines[i]) \o GetChildrenFrom(lines, i + 1)

GetChildren(pid) == GetChildrenFrom(DirectChildren(pid), 1)

\* mutant of Reversed: the list as it is
NotReversed(seq) == seq

\* reversed(children)
Reversed(seq) == [i \in 1..Len(seq) |-> seq[Len(seq) + 1 - i]]

NoTreeCall == [pc |-> "idle", pid |-> 0, children |-> << >>, next |-> 0]

TreeInit ==
    /\ kt_parent \in ProcessTables
    /\ kt_call = NoTreeCall
    /\ kt_killed = << >>
    /\ kt_reports = << >>

TreeIdle ==
    /\ kt_parent = [p \in Pids |-> 0]
    /\ kt_call = NoTreeCall
    /\ kt_killed = << >>
    /\ kt_reports = << >>

\* kill_tree(pid): reports = []; children = self._get_children(pid)
KillTreeStart(pid) ==
    /\ kt_call.pc = "idle"
    /\ kt_call' = [pc |-> "children", pid |-> pid,
                   children |-> Reversed(GetChildren(pid)), next |-> 1]
    /\ UNCHANGED <<kt_parent, kt_killed, kt_reports>>
    /\ UNCHANGED exceptTreeVars

\* for child_pid in reversed(children): reports.append(self.killer.kill(child_pid))
KillTreeChild(result) ==
    /\ kt_call.pc = "children"
    /\ kt_call.next <= Len(kt_call.children)
    /\ kt_killed' = Append(kt_killed, kt_call.children[kt_call.next])
    /\ kt_reports' = Append(kt_reports,
                            [pid |-> kt_call.children[kt_call.next],
                             result |-> result])
    /\ kt_call' = [kt_call EXCEPT !.next = @ + 1]
    /\ UNCHANGED kt_parent
    /\ UNCHANGED exceptTreeVars

\* report = self.killer.kill(pid); reports.append(report); return reports
KillTreeRoot(result) ==
    /\ kt_call.pc = "children"
    /\ kt_call.next > Len(kt_call.children)
    /\ kt_killed' = Append(kt_killed, kt_call.pid)
    /\ kt_reports' = Append(kt_reports, [pid |-> kt_call.pid, result |-> result])
    /\ kt_call' = [kt_call EXCEPT !.pc = "done"]
    /\ UNCHANGED kt_parent
    /\ UNCHANGED exceptTreeVars

(***************************************************************************)
(*                  AGENT TERMINATOR: AgentTerminator                      *)
(***************************************************************************)
MaxRegistrations == 2

TermAgents == {"agent-1", "agent-2"}
TermPids == {1, 2}
\* the threads that call into the terminator, each with one request
Callers == {"t1", "t2"}
\* what HardKill.kill / kill_tree report for the agent's pid
TermOutcomes == {"soft", "failed", "denied", "zombie"}

NoTermReport == [pid |-> 0, result |-> "none"]

NoTermCall ==
    [pc |-> "idle", op |-> "none", agent_id |-> "none", pid |-> 0,
     report |-> NoTermReport, ret |-> "none",
     history_at_start |-> 0, duplicate |-> FALSE]

\* agent_id in self._agents
Registered(agents, a) == \E i \in 1..Len(agents) : agents[i].agent_id = a

\* self._agents[agent_id]
PidOf(agents, a) ==
    agents[CHOOSE i \in 1..Len(agents) : agents[i].agent_id = a].pid

\* self._agents[agent_id] = pid: a dict keeps the position of a key it has
Registering(agents, a, pid) ==
    IF Registered(agents, a)
    THEN [i \in 1..Len(agents) |->
            IF agents[i].agent_id = a THEN [agent_id |-> a, pid |-> pid]
            ELSE agents[i]]
    ELSE Append(agents, [agent_id |-> a, pid |-> pid])

\* unregister_agent: del self._agents[agent_id] when it is there
Unregistering(agents, a) == SelectSeq(agents, LAMBDA e : e.agent_id # a)

\* kill_by_pid: the first agent registered with the pid is unregistered
UnregisteringFirstWithPid(agents, pid) ==
    IF \E i \in 1..Len(agents) : agents[i].pid = pid
    THEN LET first == CHOOSE i \in 1..Len(agents) :
                         /\ agents[i].pid = pid
                         /\ \A j \in 1..(i - 1) : agents[j].pid # pid
         IN  Unregistering(agents, agents[first].agent_id)
    ELSE agents

\* mutant of HistoryAppend: only successful kills are kept
HistoryAppendSuccessOnly(history, r) ==
    IF r.result = "soft" THEN Append(history, r) ELSE history

\* self._kill_history.append(report)
HistoryAppend(history, r) == Append(history, r)

TermInit ==
    /\ at_agents = << >>
    /\ at_history = << >>
    /\ at_call = [t \in Callers |-> NoTermCall]
    /\ at_obs = [registrations |-> 0,
                 runs |-> [a \in TermAgents |-> 0]]

TermIdle == TermInit

\* register_agent(agent_id, pid)
RegisterAgent(a, pid) ==
    /\ at_obs.registrations < MaxRegistrations
    /\ at_agents' = Registering(at_agents, a, pid)
    /\ at_obs' = [at_obs EXCEPT !.runs[a] = 0, !.registrations = @ + 1]
    /\ UNCHANGED <<at_history, at_call>>
    /\ UNCHANGED exceptTermVars

\* unregister_agent(agent_id)
UnregisterAgent(a) ==
    /\ at_agents' = Unregistering(at_agents, a)
    /\ UNCHANGED <<at_history, at_call, at_obs>>
    /\ UNCHANGED exceptTermVars

\* another call for the agent has run its kill sequence since the agent was
\* registered, or is running it
Duplicate(t, a) ==
    \/ at_obs.runs[a] > 0
    \/ \E u \in Callers \ {t} :
          /\ at_call[u].agent_id = a
          /\ at_call[u].pc \in {"read", "killing", "finish"}

\* kill_agent: `if agent_id not in self._agents: return None`
KillAgentCheck(t, a) ==
    /\ at_call[t].pc = "idle"
    /\ UNCHANGED at_obs
    /\ at_call' = [at_call EXCEPT ![t] =
          [NoTermCall EXCEPT
              !.pc = IF Registered(at_agents, a) THEN "read" ELSE "returned",
              !.op = "kill_agent", !.agent_id = a,
              !.history_at_start = Len(at_history),
              !.duplicate = Duplicate(t, a)]]
    /\ UNCHANGED <<at_agents, at_history>>
    /\ UNCHANGED exceptTermVars

\* kill_agent: pid = self._agents[agent_id] (KeyError when the agent was
\* unregistered since the check)
KillAgentRead(t) ==
    /\ at_call[t].pc = "read"
    /\ at_call' = [at_call EXCEPT ![t] =
          IF Registered(at_agents, at_call[t].agent_id)
          THEN [@ EXCEPT !.pc = "killing",
                         !.pid = PidOf(at_agents, at_call[t].agent_id)]
          ELSE [@ EXCEPT !.pc = "returned", !.ret = "KeyError"]]
    /\ UNCHANGED <<at_agents, at_history, at_obs>>
    /\ UNCHANGED exceptTermVars

\* kill_by_pid(pid), up to the kill
KillByPidBegin(t, pid) ==
    /\ at_call[t].pc = "idle"
    /\ UNCHANGED at_obs
    /\ at_call' = [at_call EXCEPT ![t] =
          [NoTermCall EXCEPT !.pc = "killing", !.op = "kill_by_pid",
                             !.pid = pid,
                             !.history_at_start = Len(at_history)]]
    /\ UNCHANGED <<at_agents, at_history>>
    /\ UNCHANGED exceptTermVars

\* reports = self.batch_kill.kill_tree(pid); report = reports[-1]
\* or report = self.hard_kill.kill(pid): with kill_children or without, the
\* report is that of the pid itself (kill_tree always ends with it)
TermKill(t, result) ==
    /\ at_call[t].pc = "killing"
    /\ at_call' = [at_call EXCEPT ![t].pc = "finish",
                                  ![t].report = [pid |-> at_call[t].pid,
                                                 result |-> result]]
    /\ at_obs' = IF at_call[t].op = "kill_agent"
                 THEN [at_obs EXCEPT !.runs[at_call[t].agent_id] = @ + 1]
                 ELSE at_obs
    /\ UNCHANGED <<at_agents, at_history>>
    /\ UNCHANGED exceptTermVars

\* kill_agent: `if report:` append to the history, unregister, return report
\* kill_by_pid: append, unregister the first agent with the pid, return report
TermFinish(t) ==
    /\ at_call[t].pc = "finish"
    /\ at_history' = HistoryAppend(at_history, at_call[t].report)
    /\ at_agents' = IF at_call[t].op = "kill_agent"
                    THEN Unregistering(at_agents, at_call[t].agent_id)
                    ELSE UnregisteringFirstWithPid(at_agents, at_call[t].pid)
    /\ at_call' = [at_call EXCEPT ![t].pc = "returned", ![t].ret = "report"]
    /\ UNCHANGED at_obs
    /\ UNCHANGED exceptTermVars

(***************************************************************************)
(*          NETWORK KILL: FirewallInterface and NetworkKillManager         *)
(*                                                                         *)
(* Strings are sequences of tokens; the identifiers are made of one-letter *)
(* tokens, so that `x in line` on strings is Contains on token sequences.  *)
(* The manager is built without a cloud provider (self.cloud is None).     *)
(***************************************************************************)
MaxRules == 3

Platforms == {"Linux", "Darwin", "Windows"}
\* what the callers pass to the firewall as identifier
FwIds == { <<"1">>, <<"1", "2">> }
IpAddresses == { <<"9", ".", "9">> }
NetAgents == { <<"a">> }
\* pid and uid of kill_network (0: not given)
NetPids == {0, 1, 12}
NetUids == {0, 2}
EmergencyAll == <<"EMERGENCY_ALL">>
AnyAddress == <<"0.0.0.0/0">>
NoAgent == << >>

NoNetRet == [op |-> "none", ident |-> << >>, result |-> "none"]

\* str(n) for the pids and uids
RECURSIVE Str(_)
Str(n) ==
    IF n < 10
    THEN << CHOOSE d \in {"0", "1", "2", "3", "4", "5", "6", "7", "8", "9"} :
               d = (<<"0", "1", "2", "3", "4", "5", "6", "7", "8", "9">>)[n + 1] >>
    ELSE Str(n \div 10) \o Str(n % 10)

\* needle in line
Contains(line, needle) ==
    \E i \in 0..(Len(line) - Len(needle)) :
        SubSeq(line, i + 1, i + Len(needle)) = needle

\* ip_address.replace('.', '_')
ReplaceDots(ip) == [i \in 1..Len(ip) |-> IF ip[i] = "." THEN "_" ELSE ip[i]]

\* f"KILLSWITCH:{identifier}"
Comment(identifier) == <<"KILLSWITCH:">> \o identifier
\* f"KILLSWITCH:IP:{ip_address}"
IpComment(ip) == <<"KILLSWITCH:", "IP:">> \o ip
\* f"{self.RULE_PREFIX}{identifier}"
RuleName(identifier) == <<"KILLSWITCH_">> \o identifier
\* f"{self.RULE_PREFIX}IP_{ip_address.replace('.', '_')}"
IpRuleName(ip) == <<"KILLSWITCH_", "IP_">> \o ReplaceDots(ip)

\* A firewall rule: `text` is what the firewall shows for it (the iptables
\* comment, the netsh rule name, the pf table address); `kind` and `owner`
\* say what it was installed for (an identifier or an IP address), and `by`
\* the agent whose kill_network installed it (NoAgent: none).
Rule(kind, owner, text, by) ==
    [kind |-> kind, owner |-> owner, text |-> text, by |-> by]

\* pfctl -T add: the table is a set of addresses
TableAdd(rules, r) ==
    IF \E i \in 1..Len(rules) : rules[i].text = r.text THEN rules
    ELSE Append(rules, r)

\* block_all_traffic(identifier)
\* Linux: iptables -A appends one DROP rule; Windows: netsh add rule adds
\* an _OUT and an _IN rule; macOS: pfctl adds 0.0.0.0/0 to the table
BlockAllRules(platform, rules, identifier, by) ==
    CASE platform = "Linux" ->
            Append(rules, Rule("id", identifier, Comment(identifier), by))
      [] platform = "Windows" ->
            rules \o << Rule("id", identifier,
                             RuleName(identifier) \o <<"_OUT">>, by),
                        Rule("id", identifier,
                             RuleName(identifier) \o <<"_IN">>, by) >>
      [] platform = "Darwin" ->
            TableAdd(rules, Rule("id", identifier, AnyAddress, by))

\* block_outbound(identifier): as block_all_traffic, on Windows the _OUT
\* rule only
BlockOutboundRules(platform, rules, identifier) ==
    IF platform = "Windows"
    THEN Append(rules, Rule("id", identifier,
                            RuleName(identifier) \o <<"_OUT">>, NoAgent))
    ELSE BlockAllRules(platform, rules, identifier, NoAgent)

\* block_ip(ip_address)
BlockIpRules(platform, rules, ip) ==
    CASE platform = "Linux" ->
            rules \o << Rule("ip", ip, IpComment(ip), NoAgent),
                        Rule("ip", ip, IpComment(ip), NoAgent) >>
      [] platform = "Windows" ->
            Append(rules, Rule("ip", ip, IpRuleName(ip), NoAgent))
      [] platform = "Darwin" ->
            TableAdd(rules, Rule("ip", ip, ip, NoAgent))

\* the rules restore_access(identifier) removes
\* Linux: every line with f"KILLSWITCH:{identifier}" in it; Windows: the
\* rules named ..._OUT, ..._IN and the generic name; macOS: the whole table
Removed(platform, r, identifier) ==
    CASE platform = "Linux" -> Contains(r.text, Comment(identifier))
      [] platform = "Windows" ->
            r.text \in { RuleName(identifier) \o <<"_OUT">>,
                         RuleName(identifier) \o <<"_IN">>,
                         RuleName(identifier) }
      [] platform = "Darwin" -> TRUE

RestoreRules(platform, rules, identifier) ==
    SelectSeq(rules, LAMBDA r : ~Removed(platform, r, identifier))

\* FirewallInterface.is_blocked(identifier)
FwIsBlocked(platform, root, rules, identifier) ==
    /\ root
    /\ CASE platform = "Linux" ->
               \E i \in 1..Len(rules) :
                   Contains(rules[i].text, Comment(identifier))
         [] platform = "Windows" ->
               \E i \in 1..Len(rules) :
                   rules[i].text = RuleName(identifier) \o <<"_OUT">>
         [] platform = "Darwin" -> Len(rules) > 0

\* FirewallInterface.list_rules()
\* (macOS: output.strip().split('\n') is [''] for an empty table)
ListRules(platform, root, rules) ==
    IF ~root THEN << >>
    ELSE IF platform = "Darwin" /\ rules = << >> THEN << << >> >>
    ELSE [i \in 1..Len(rules) |-> rules[i].text]

\* restore_all_network: restore_network for every key of _blocked_agents
RECURSIVE RestoreAllRules(_, _, _)
RestoreAllRules(platform, rules, agents) ==
    IF agents = {} THEN rules
    ELSE LET a == CHOOSE x \in agents : TRUE
         IN  RestoreAllRules(platform, RestoreRules(platform, rules, a),
                             agents \ {a})

\* kill_network: identifier = str(pid) if pid else str(uid) if uid else agent_id
Identifier(agent_id, pid, uid) ==
    IF pid # 0 THEN Str(pid) ELSE IF uid # 0 THEN Str(uid) ELSE agent_id

NetInit ==
    /\ nk_platform \in Platforms
    /\ fw_root \in BOOLEAN
    /\ fw_rules = << >>
    /\ blocked_agents = {}
    /\ nk_ret = NoNetRet

NetIdle ==
    /\ nk_platform = "Linux"
    /\ fw_root = TRUE
    /\ fw_rules = << >>
    /\ blocked_agents = {}
    /\ nk_ret = NoNetRet

\* a firewall call that adds rules: the rules after it and its report
Blocking(op, identifier, added) ==
    /\ Len(added) <= MaxRules
    /\ fw_rules' = IF fw_root THEN added ELSE fw_rules
    /\ nk_ret' = [op |-> op, ident |-> identifier,
                  result |-> IF fw_root THEN "success" ELSE "failed"]
    /\ UNCHANGED <<nk_platform, fw_root>>
    /\ UNCHANGED exceptNetVars

\* self.firewall.block_all_traffic(identifier)
BlockAllTraffic(identifier) ==
    /\ Blocking("block_all_traffic", identifier,
                BlockAllRules(nk_platform, fw_rules, identifier, NoAgent))
    /\ UNCHANGED blocked_agents

\* self.firewall.block_outbound(identifier)
BlockOutbound(identifier) ==
    /\ Blocking("block_outbound", identifier,
                BlockOutboundRules(nk_platform, fw_rules, identifier))
    /\ UNCHANGED blocked_agents

\* self.firewall.block_ip(ip_address)
BlockIp(ip) ==
    /\ Blocking("block_ip", ip, BlockIpRules(nk_platform, fw_rules, ip))
    /\ UNCHANGED blocked_agents

\* a firewall call that removes rules: SUCCESS when something was removed
\* (macOS: when the flush command succeeded), else NOT_BLOCKED (macOS: FAILED)
Restoring(op, identifier, kept) ==
    /\ fw_rules' = IF fw_root THEN kept ELSE fw_rules
    /\ nk_ret' = [op |-> op, ident |-> identifier,
                  result |->
                     IF nk_platform = "Darwin"
                     THEN IF fw_root THEN "success" ELSE "failed"
                     ELSE IF fw_root /\ kept # fw_rules THEN "success"
                          ELSE "not_blocked"]
    /\ UNCHANGED <<nk_platform, fw_root>>
    /\ UNCHANGED exceptNetVars

\* self.firewall.restore_access(identifier)
RestoreAccess(identifier) ==
    /\ Restoring("restore_access", identifier,
                 RestoreRules(nk_platform, fw_rules, identifier))
    /\ UNCHANGED blocked_agents

\* kill_network(agent_id, pid, uid): the OS-level block, then
\* self._blocked_agents[agent_id] = final_report whatever the result
KillNetwork(agent_id, pid, uid) ==
    /\ Blocking("kill_network", agent_id,
                BlockAllRules(nk_platform, fw_rules,
                              Identifier(agent_id, pid, uid), agent_id))
    /\ blocked_agents' = blocked_agents \cup {agent_id}

\* restore_network(agent_id): self.firewall.restore_access(agent_id), then
\* the agent is dropped from _blocked_agents
RestoreNetwork(agent_id) ==
    /\ Restoring("restore_network", agent_id,
                 RestoreRules(nk_platform, fw_rules, agent_id))
    /\ blocked_agents' = blocked_agents \ {agent_id}

\* kill_all_network()
KillAllNetwork ==
    /\ Blocking("kill_all_network", EmergencyAll,
                BlockAllRules(nk_platform, fw_rules, EmergencyAll, EmergencyAll))
    /\ blocked_agents' = blocked_agents \cup {EmergencyAll}

\* restore_all_network()
RestoreAllNetwork ==
    /\ fw_rules' = IF fw_root
                   THEN RestoreAllRules(nk_platform, fw_rules, blocked_agents)
                   ELSE fw_rules
    /\ blocked_agents' = {}
    /\ nk_ret' = [op |-> "restore_all_network", ident |-> << >>,
                  result |-> "reports"]
    /\ UNCHANGED <<nk_platform, fw_root>>
    /\ UNCHANGED exceptNetVars

\* NetworkKillManager.is_blocked(agent_id)
IsBlocked(agent_id) == agent_id \in blocked_agents

(***************************************************************************)
(*             SLIDING WINDOW DETECTOR: SlidingWindowDetector              *)
(*                                                                         *)
(* Timestamps are in seconds.  A call made without a timestamp (or with    *)
(* timestamp 0, which `ts or time.time()` treats alike) takes the clock.   *)
(***************************************************************************)
MaxRecords == 2
\* check_thresholds is called while self.breaches holds fewer breaches
MaxBreachLog == 2

\* WindowSize
HOUR_1 == 3600
HOUR_6 == 21600
HOUR_24 == 86400
WindowSizes == {HOUR_1, HOUR_6, HOUR_24}

\* the MetricTypes recorded here
Metrics == {"bytes_out", "api_calls"}
\* what is recorded: <<metric, value>>
Recordings == { <<"bytes_out", 1>>, <<"bytes_out", 2>>, <<"api_calls", 1>> }
\* the timestamps callers supply (0: none, the clock is taken)
SwStamps == {0, HOUR_1, 2 * HOUR_1, 8 * HOUR_1}

\* the metric whose totals are read, and the times they are read at
ReadMetrics == {"bytes_out"}
ReadStamps == {2 * HOUR_1, 8 * HOUR_1}

WindowThreshold(metric, window, limit, action) ==
    [metric |-> metric, window |-> window, limit |-> limit, action |-> action]

\* the threshold lists a detector is built with
ThresholdLists ==
    { << WindowThreshold("bytes_out", HOUR_1, 2, "alert"),
         WindowThreshold("bytes_out", HOUR_24, 3, "kill") >>,
      << WindowThreshold("bytes_out", HOUR_1, 2, "alert"),
         WindowThreshold("bytes_out", HOUR_6, 2, "alert"),
         WindowThreshold("api_calls", HOUR_1, 1, "alert") >> }

NoSwRet ==
    [op |-> "none", ts |-> 0, breaches |-> << >>, metric |-> "none",
     window |-> 0, total |-> 0, totals |-> << >>]

\* SlidingWindow.__init__
EmptyWindow == [events |-> << >>, total |-> 0]

\* `timestamp or time.time()`
StampOrClock(ts, clock) == IF ts # 0 THEN ts ELSE clock

\* mutant of Cutoff: the window sizes are taken in inverse order
CutoffInverted(current_time, size) ==
    current_time - (HOUR_1 * HOUR_24) \div size

\* _prune: `cutoff = current_time - self.window_size.value`
Cutoff(current_time, size) == current_time - size

\* SlidingWindow._prune, given the cutoff: while the oldest event of the
\* deque is before the cutoff it is popped and its value leaves the total
RECURSIVE Prune(_, _)
Prune(w, cutoff) ==
    IF w.events # << >> /\ w.events[1].timestamp < cutoff
    THEN Prune([events |-> Tail(w.events),
                total |-> w.total - w.events[1].value], cutoff)
    ELSE w

\* SlidingWindow.add(value, ts) on the window of the given size
Add(w, size, value, ts) ==
    Prune([events |-> Append(w.events, [timestamp |-> ts, value |-> value]),
           total |-> w.total + value],
          Cutoff(ts, size))

\* mutant of Exceeds: the limit itself is a breach
ExceedsOrEqual(current, limit) == current >= limit

\* check_thresholds: `if current > threshold.limit`
Exceeds(current, limit) == current > limit

\* ThresholdBreach of a threshold whose window holds `current`
Breach(th, current) ==
    [metric |-> th.metric, window |-> th.window, current_value |-> current,
     limit |-> th.limit, action |-> th.action]

\* check_thresholds: the breaches of the thresholds, in the order of the
\* list, against the windows pruned at current_time
BreachesOf(ths, windows, current_time) ==
    LET current(i) ==
            Prune(windows[ths[i].metric][ths[i].window],
                  Cutoff(current_time, ths[i].window)).total
        hit == SelectSeq([i \in 1..Len(ths) |-> i],
                         LAMBDA i : Exceeds(current(i), ths[i].limit))
    IN  [k \in 1..Len(hit) |-> Breach(ths[hit[k]], current(hit[k]))]

\* check_thresholds: get_total prunes the window of every threshold
PrunedByCheck(ths, windows, current_time) ==
    [m \in Metrics |-> [size \in WindowSizes |->
        IF \E i \in 1..Len(ths) : ths[i].metric = m /\ ths[i].window = size
        THEN Prune(windows[m][size], Cutoff(current_time, size))
        ELSE windows[m][size]]]

SwInit ==
    /\ sw_thresholds \in ThresholdLists
    /\ sw_windows = [m \in Metrics |-> [size \in WindowSizes |-> EmptyWindow]]
    /\ sw_breaches = << >>
    /\ sw_ret = NoSwRet
    /\ sw_recorded = << >>
    /\ sw_in_order = TRUE

SwIdle ==
    /\ sw_thresholds = << >>
    /\ sw_windows = [m \in Metrics |-> [size \in WindowSizes |-> EmptyWindow]]
    /\ sw_breaches = << >>
    /\ sw_ret = NoSwRet
    /\ sw_recorded = << >>
    /\ sw_in_order = TRUE

\* record(metric, value, ts): MetricTracker.record adds to the three windows
SwRecord(metric, value, ts) ==
    LET at == StampOrClock(ts, now) IN
    /\ Len(sw_recorded) < MaxRecords
    /\ sw_windows' = [sw_windows EXCEPT ![metric] =
          [size \in WindowSizes |-> Add(@[size], size, value, at)]]
    /\ sw_recorded' = Append(sw_recorded,
          [metric |-> metric, timestamp |-> at, value |-> value])
    /\ sw_ret' = [NoSwRet EXCEPT !.op = "record", !.ts = at]
    /\ sw_in_order' = (sw_in_order /\ at >= sw_ret.ts)
    /\ UNCHANGED <<sw_thresholds, sw_breaches>>
    /\ UNCHANGED exceptSwVars

\* check_thresholds(ts)
CheckThresholds(ts) ==
    LET current_time == StampOrClock(ts, now)
        breaches == BreachesOf(sw_thresholds, sw_windows, current_time)
    IN
    /\ Len(sw_breaches) < MaxBreachLog
    /\ sw_windows' = PrunedByCheck(sw_thresholds, sw_windows, current_time)
    /\ sw_breaches' = sw_breaches \o breaches
    /\ sw_ret' = [NoSwRet EXCEPT !.op = "check_thresholds",
                                 !.ts = current_time, !.breaches = breaches]
    /\ sw_in_order' = (sw_in_order /\ current_time >= sw_ret.ts)
    /\ UNCHANGED <<sw_thresholds, sw_recorded>>
    /\ UNCHANGED exceptSwVars

\* MetricTracker.get_total(window_size, ts): SlidingWindow.get_total prunes
\* that window and returns its total
GetTotal(metric, size, ts) ==
    LET current_time == StampOrClock(ts, now)
        pruned == Prune(sw_windows[metric][size], Cutoff(current_time, size))
    IN
    /\ sw_windows' = [sw_windows EXCEPT ![metric][size] = pruned]
    /\ sw_ret' = [NoSwRet EXCEPT !.op = "get_total", !.ts = current_time,
                                 !.metric = metric, !.window = size,
                                 !.total = pruned.total]
    /\ sw_in_order' = (sw_in_order /\ current_time >= sw_ret.ts)
    /\ UNCHANGED <<sw_thresholds, sw_breaches, sw_recorded>>
    /\ UNCHANGED exceptSwVars

\* MetricTracker.get_all_totals(ts): get_total of each of the three windows
GetAllTotals(metric, ts) ==
    LET current_time == StampOrClock(ts, now)
        pruned == [size \in WindowSizes |->
                     Prune(sw_windows[metric][size], Cutoff(current_time, size))]
    IN
    /\ sw_windows' = [sw_windows EXCEPT ![metric] = pruned]
    /\ sw_ret' = [NoSwRet EXCEPT !.op = "get_all_totals", !.ts = current_time,
                                 !.metric = metric,
                                 !.totals = [size \in WindowSizes |->
                                               pruned[size].total]]
    /\ sw_in_order' = (sw_in_order /\ current_time >= sw_ret.ts)
    /\ UNCHANGED <<sw_thresholds, sw_breaches, sw_recorded>>
    /\ UNCHANGED exceptSwVars

(***************************************************************************)
(*                     RUNTIME FENCE: RuntimeFence                         *)
(***************************************************************************)
MaxValidations == 3

RiskLevels == {"low", "medium", "high", "critical"}

\* action names, and targets as sequences of characters
FenceActions == {"buy", "delete"}
FenceTargets == { <<"B">>, <<"x", "e", "w">> }
Amounts == {0, 1, 2}
SpendingLimits == {2}

\* what _call_api does: the request raises (connection refused, timeout), or
\* the service answers with a riskScore
ApiOutcomes ==
    { [ok |-> FALSE, riskScore |-> 0],
      [ok |-> TRUE, riskScore |-> 0],
      [ok |-> TRUE, riskScore |-> 95] }

\* offline_mode: _call_api is not reached
NotCalled == [ok |-> TRUE, riskScore |-> 0]

\* FenceConfig as test_fence.py builds it, with every risk_threshold and flag
FenceConfigs ==
    [spending_limit : SpendingLimits,
     blocked_actions : { <<"delete">> },
     blocked_targets : { << <<"e", "w">> >> },
     risk_threshold : RiskLevels,
     auto_kill_on_critical : BOOLEAN,
     log_all_actions : BOOLEAN,
     offline_mode : BOOLEAN]

NoRfRet ==
    [op |-> "none", allowed |-> FALSE, action |-> "none", target |-> << >>,
     amount |-> 0, risk_score |-> 0, risk_level |-> "low", reasons |-> << >>,
     api_failed |-> FALSE]

\* `action in self.config.blocked_actions`
ActionBlocked(cfg, action) ==
    \E i \in 1..Len(cfg.blocked_actions) : cfg.blocked_actions[i] = action

\* `any(blocked in target for blocked in self.config.blocked_targets)`
TargetBlocked(cfg, target) ==
    \E i \in 1..Len(cfg.blocked_targets) : Contains(target, cfg.blocked_targets[i])

\* `amount > 0` and `self.total_spent + amount > self.config.spending_limit`
OverLimit(cfg, spent, amount) ==
    amount > 0 /\ spent + amount > cfg.spending_limit

\* the local checks: the reasons collected and the risk score added up
LocalReasons(cfg, spent, action, target, amount) ==
    (IF ActionBlocked(cfg, action) THEN <<"Action is blocked">> ELSE << >>)
    \o (IF TargetBlocked(cfg, target) THEN <<"Target is blocked">> ELSE << >>)
    \o (IF OverLimit(cfg, spent, amount)
        THEN <<"Would exceed spending limit">> ELSE << >>)

LocalRisk(cfg, spent, action, target, amount) ==
    (IF ActionBlocked(cfg, action) THEN 50 ELSE 0)
    + (IF TargetBlocked(cfg, target) THEN 50 ELSE 0)
    + (IF OverLimit(cfg, spent, amount) THEN 40 ELSE 0)

\* the remote call: `risk_score = max(risk_score, api_result.get("riskScore", 0))`,
\* and on an exception the local score is kept
RiskAfterApi(cfg, local, api) ==
    IF ~cfg.offline_mode /\ api.ok /\ api.riskScore > local
    THEN api.riskScore
    ELSE local

\* "Determine risk level"
RiskLevelOf(risk_score) ==
    IF risk_score >= 90 THEN "critical"
    ELSE IF risk_score >= 70 THEN "high"
    ELSE IF risk_score >= 40 THEN "medium"
    ELSE "low"

\* _risk_threshold_value
RiskThresholdValue(level) ==
    CASE level = "low" -> 25
      [] level = "medium" -> 50
      [] level = "high" -> 75
      [] OTHER -> 90

\* mutant of AutoKills: a critical action never trips the kill switch
NeverAutoKills(cfg, risk_level) == FALSE

\* "Auto-kill on critical"
AutoKills(cfg, risk_level) ==
    risk_level = "critical" /\ cfg.auto_kill_on_critical

RfInit ==
    /\ rf_config \in FenceConfigs
    /\ rf_killed = FALSE
    /\ rf_total_spent = 0
    /\ rf_action_log = << >>
    /\ rf_ret = NoRfRet
    /\ rf_calls = 0

RfIdle ==
    /\ rf_config = [spending_limit |-> 2, blocked_actions |-> <<"delete">>,
                    blocked_targets |-> << <<"e", "w">> >>,
                    risk_threshold |-> "high", auto_kill_on_critical |-> TRUE,
                    log_all_actions |-> TRUE, offline_mode |-> FALSE]
    /\ rf_killed = FALSE
    /\ rf_total_spent = 0
    /\ rf_action_log = << >>
    /\ rf_ret = NoRfRet
    /\ rf_calls = 0

\* validate(action, target, amount) on a killed fence: returned at once,
\* nothing logged
ValidateKilled(action, target, amount) ==
    /\ rf_killed
    /\ rf_ret' = [op |-> "validate", allowed |-> FALSE, action |-> action,
                  target |-> target, amount |-> amount, risk_score |-> 100,
                  risk_level |-> "critical",
                  reasons |-> <<"Agent has been killed - all actions blocked">>,
                  api_failed |-> FALSE]
    /\ UNCHANGED <<rf_killed, rf_total_spent, rf_action_log>>

\* validate(action, target, amount) on a live fence; api is what _call_api does
ValidateLive(action, target, amount, api) ==
    LET local == LocalRisk(rf_config, rf_total_spent, action, target, amount)
        risk_score == RiskAfterApi(rf_config, local, api)
        risk_level == RiskLevelOf(risk_score)
        kills == AutoKills(rf_config, risk_level)
        allowed == risk_score < RiskThresholdValue(rf_config.risk_threshold)
                   /\ ~kills
        reasons == LocalReasons(rf_config, rf_total_spent, action, target, amount)
                   \o (IF ~rf_config.offline_mode /\ api.ok /\ api.riskScore > 0
                       THEN <<"remote">> ELSE << >>)
    IN
    /\ ~rf_killed
    /\ rf_config.offline_mode => api = NotCalled
    /\ rf_killed' = kills
    /\ rf_ret' = [op |-> "validate", allowed |-> allowed, action |-> action,
                  target |-> target, amount |-> amount,
                  risk_score |-> risk_score, risk_level |-> risk_level,
                  reasons |-> reasons,
                  api_failed |-> (~rf_config.offline_mode /\ ~api.ok)]
    /\ rf_action_log' = IF rf_config.log_all_actions
                        THEN Append(rf_action_log, allowed)
                        ELSE rf_action_log
    /\ rf_total_spent' = IF allowed /\ amount > 0
                         THEN rf_total_spent + amount
                         ELSE rf_total_spent

\* RuntimeFence.validate
Validate(action, target, amount, api) ==
    /\ rf_calls < MaxValidations
    /\ rf_calls' = rf_calls + 1
    /\ \/ ValidateKilled(action, target, amount) /\ api = NotCalled
       \/ ValidateLive(action, target, amount, api)
    /\ UNCHANGED rf_config
    /\ UNCHANGED exceptRfVars

\* RuntimeFence.kill(reason): the notification of the API may fail, silently
RfKill ==
    /\ rf_killed' = TRUE
    /\ rf_ret' = [NoRfRet EXCEPT !.op = "kill"]
    /\ UNCHANGED <<rf_config, rf_total_spent, rf_action_log, rf_calls>>
    /\ UNCHANGED exceptRfVars

\* RuntimeFence.reset()
RfReset ==
    /\ rf_killed' = FALSE
    /\ rf_total_spent' = 0
    /\ rf_ret' = [NoRfRet EXCEPT !.op = "reset"]
    /\ UNCHANGED <<rf_config, rf_action_log, rf_calls>>
    /\ UNCHANGED exceptRfVars

\* RuntimeFence.get_status()
GetStatus ==
    /\ rf_ret' = [NoRfRet EXCEPT !.op = "get_status"]
    /\ UNCHANGED <<rf_config, rf_killed, rf_total_spent, rf_action_log, rf_calls>>
    /\ UNCHANGED exceptRfVars

(***************************************************************************)
(*      CONCURRENT CHECKS: BehavioralThresholds.check_action and its lock  *)
(***************************************************************************)
MaxConcurrentChecks == 3

Threads == {"t1", "t2"}
CheckedAgents == {"a1", "a2"}

\* a callback is not set, returns, or raises
CallbackKinds == {"none", "returns", "raises"}

NoCheckCall ==
    [pc |-> "idle", agent_id |-> "none", should_kill |-> FALSE,
     result |-> "none"]

\* __init__: thresholds, on_breach and on_kill as given; BehavioralFence
\* passes no on_breach and its own _handle_kill, which calls the user's on_kill
CcInit ==
    /\ cc_threshold \in ThresholdConfigs(ConfiguredType)
    /\ cc_callbacks \in [on_breach : CallbackKinds, on_kill : CallbackKinds]
    /\ cc_lock = "free"
    /\ cc_call = [t \in Threads |-> NoCheckCall]
    /\ cc_history = [a \in CheckedAgents |-> 0]
    /\ cc_cooldowns = [a \in CheckedAgents |-> 0]
    /\ cc_checks = 0

CcIdle ==
    /\ cc_threshold = NoThreshold
    /\ cc_callbacks = [on_breach |-> "none", on_kill |-> "none"]
    /\ cc_lock = "free"
    /\ cc_call = [t \in Threads |-> NoCheckCall]
    /\ cc_history = [a \in CheckedAgents |-> 0]
    /\ cc_cooldowns = [a \in CheckedAgents |-> 0]
    /\ cc_checks = 0

\* the call returns normally or, result "raised", by an exception; either way
\* the `with self._lock` block is left and the lock released
Returns(t, result) ==
    /\ cc_call' = [cc_call EXCEPT ![t].pc = "returned", ![t].result = result]
    /\ cc_lock' = "free"

\* _handle_breach, after the breach is recorded: `if self.on_breach:` ...
\* `if should_kill and self.on_kill:` ..., else check_action returns (False, breach)
AfterOnBreach(t, should_kill) ==
    IF should_kill /\ cc_callbacks.on_kill # "none"
    THEN /\ cc_call' = [cc_call EXCEPT ![t].pc = "on_kill",
                                       ![t].should_kill = should_kill]
         /\ cc_lock' = t
    ELSE Returns(t, "blocked")

\* a thread calls check_action(agent_id, action_type) and reaches
\* `with self._lock:`
CallCheckAction(t, a) ==
    /\ cc_call[t].pc \in {"idle", "returned"}
    /\ cc_checks < MaxConcurrentChecks
    /\ cc_checks' = cc_checks + 1
    /\ cc_call' = [cc_call EXCEPT ![t] =
                     [NoCheckCall EXCEPT !.pc = "waiting", !.agent_id = a]]
    /\ UNCHANGED <<cc_threshold, cc_callbacks, cc_lock, cc_history, cc_cooldowns>>
    /\ UNCHANGED exceptCcVars

\* the thread gets the lock and runs check_action up to its return or to the
\* first callback of _handle_breach
EnterCheckAction(t) ==
    LET a == cc_call[t].agent_id
        count == cc_history[a]
        should_kill == ShouldKill(count, cc_threshold)
    IN
    /\ cc_call[t].pc = "waiting"
    /\ cc_lock = "free"
    /\ IF now < cc_cooldowns[a]
       THEN /\ Returns(t, "blocked")
            /\ UNCHANGED <<cc_history, cc_cooldowns>>
       ELSE IF ThresholdExceeded(count, cc_threshold.max_count)
       THEN /\ cc_cooldowns' = [cc_cooldowns EXCEPT
                                  ![a] = CooldownEnd(now, cc_threshold)]
            /\ IF cc_callbacks.on_breach # "none"
               THEN /\ cc_call' = [cc_call EXCEPT ![t].pc = "on_breach",
                                                  ![t].should_kill = should_kill]
                    /\ cc_lock' = t
               ELSE AfterOnBreach(t, should_kill)
            /\ UNCHANGED cc_history
       ELSE /\ cc_history' = [cc_history EXCEPT ![a] = @ + 1]
            /\ Returns(t, "allowed")
            /\ UNCHANGED cc_cooldowns
    /\ UNCHANGED <<cc_threshold, cc_callbacks, cc_checks>>
    /\ UNCHANGED exceptCcVars

\* self.on_breach(breach) comes back: it returns or it raises
RunOnBreach(t) ==
    /\ cc_call[t].pc = "on_breach"
    /\ IF cc_callbacks.on_breach = "raises"
       THEN Returns(t, "raised")
       ELSE AfterOnBreach(t, cc_call[t].should_kill)
    /\ UNCHANGED <<cc_threshold, cc_callbacks, cc_history, cc_cooldowns, cc_checks>>
    /\ UNCHANGED exceptCcVars

\* self.on_kill(agent_id, breach), the kill of the agent, comes back: it
\* returns or it raises
RunOnKill(t) ==
    /\ cc_call[t].pc = "on_kill"
    /\ IF cc_callbacks.on_kill = "raises"
       THEN Returns(t, "raised")
       ELSE Returns(t, "blocked")
    /\ UNCHANGED <<cc_threshold, cc_callbacks, cc_history, cc_cooldowns, cc_checks>>
    /\ UNCHANGED exceptCcVars

(***************************************************************************)
(*          EXFILTRATION DETECTOR: ExfiltrationDetector                    *)
(***************************************************************************)
MaxAccesses == 3
MaxExTime == 4

\* __init__: 300 s, 100 MB and 1000 files, scaled; sizes are counted in MB
window_seconds == 2
max_data_volume_mb == 3
max_unique_files == 2

ExAgents == {"a1", "a2"}
ExTargets == {"f1", "f2", "f3"}
ExSizes == {1, 2}

NoExRet ==
    [agent_id |-> "none", at |-> 0, total_mb |-> 0, unique_targets |-> 0,
     is_exfiltration |-> FALSE, reason |-> "none"]

\* sum(size for _, size in volumes)
RECURSIVE TotalBytes(_)
TotalBytes(volumes) ==
    IF volumes = << >> THEN 0
    ELSE Head(volumes)[2] + TotalBytes(Tail(volumes))

\* [(ts, size) for ts, size in volumes if ts > cutoff]
RecentVolumes(volumes, cutoff) ==
    SelectSeq(volumes, LAMBDA e : e[1] > cutoff)

ExInit ==
    /\ ex_time = 0
    /\ ex_data_volumes = [a \in ExAgents |-> << >>]
    /\ ex_unique_targets = [a \in ExAgents |-> {}]
    /\ ex_ret = NoExRet
    /\ ex_accesses = << >>

ExIdle == ExInit

\* time.time() moves on between two calls
ExTimePasses ==
    /\ ex_time < MaxExTime
    /\ ex_time' = ex_time + 1
    /\ UNCHANGED <<ex_data_volumes, ex_unique_targets, ex_ret, ex_accesses>>
    /\ UNCHANGED exceptExVars

\* record_data_access(agent_id, target, bytes_accessed)
RecordDataAccess(agent_id, target, bytes_accessed) ==
    LET cutoff   == ex_time - window_seconds
        volumes  == RecentVolumes(
                        Append(ex_data_volumes[agent_id],
                               <<ex_time, bytes_accessed>>), cutoff)
        targets  == ex_unique_targets[agent_id] \cup {target}
        total_mb == TotalBytes(volumes)
    IN  /\ Len(ex_accesses) < MaxAccesses
        /\ ex_data_volumes' = [ex_data_volumes EXCEPT ![agent_id] = volumes]
        /\ ex_unique_targets' = [ex_unique_targets EXCEPT ![agent_id] = targets]
        /\ ex_ret' =
             [agent_id |-> agent_id, at |-> ex_time, total_mb |-> total_mb,
              unique_targets |-> Cardinality(targets),
              is_exfiltration |-> \/ total_mb > max_data_volume_mb
                                  \/ Cardinality(targets) > max_unique_files,
              reason |-> IF total_mb > max_data_volume_mb THEN "volume"
                         ELSE IF Cardinality(targets) > max_unique_files
                              THEN "targets" ELSE "none"]
        /\ ex_accesses' =
             Append(ex_accesses,
                    [agent_id |-> agent_id, ts |-> ex_time, target |-> target,
                     size |-> bytes_accessed])
        /\ UNCHANGED ex_time
        /\ UNCHANGED exceptExVars

(***************************************************************************)
(*      CONCURRENT CACHE CALLS: PolicyCache.get, set and invalidate        *)
(***************************************************************************)
CacheThreads == {"t1", "t2", "t3"}
CacheOps == {"get", "set", "invalidate"}

\* the key is not in the dict, or holds a policy that is_expired() or is not
EntryStates == {"absent", "stale", "fresh"}

NoCacheCall == [op |-> "none", pc |-> "idle", result |-> "none"]

PkInit ==
    /\ pk_entry \in EntryStates
    /\ pk_first = pk_entry
    /\ pk_call = [t \in CacheThreads |-> NoCacheCall]

PkIdle ==
    /\ pk_entry = "absent"
    /\ pk_first = "absent"
    /\ pk_call = [t \in CacheThreads |-> NoCacheCall]

\* thread t's call moves on to the statement at pc
MovesTo(t, pc) == pk_call' = [pk_call EXCEPT ![t].pc = pc]

\* thread t's call ends: it returns a value or None, or raises KeyError
Ends(t, result) ==
    pk_call' = [pk_call EXCEPT ![t].pc = "done", ![t].result = result]

\* a thread calls get, set or invalidate(action, target) with the key
CallCache(t, op) ==
    /\ pk_call[t].pc = "idle"
    /\ pk_call' = [pk_call EXCEPT ![t] = [op |-> op, pc |-> "start",
                                          result |-> "none"]]
    /\ UNCHANGED <<pk_entry, pk_first>>
    /\ UNCHANGED exceptPkVars

\* get: `if cache_key not in self._cache:` ... return None
GetTestsKey(t) ==
    /\ pk_call[t].op = "get" /\ pk_call[t].pc = "start"
    /\ IF pk_entry = "absent" THEN Ends(t, "None") ELSE MovesTo(t, "read")
    /\ UNCHANGED <<pk_entry, pk_first>>
    /\ UNCHANGED exceptPkVars

\* get: `policy = self._cache[cache_key]`, then is_expired() on that object:
\* a fresh policy is returned, a stale one is to be deleted
GetReadsPolicy(t) ==
    /\ pk_call[t].op = "get" /\ pk_call[t].pc = "read"
    /\ CASE pk_entry = "absent" -> Ends(t, "KeyError")
         [] pk_entry = "stale"  -> MovesTo(t, "del")
         [] pk_entry = "fresh"  -> Ends(t, "policy")
    /\ UNCHANGED <<pk_entry, pk_first>>
    /\ UNCHANGED exceptPkVars

\* get and invalidate: `del self._cache[cache_key]`
DeletesKey(t) ==
    /\ pk_call[t].op \in {"get", "invalidate"} /\ pk_call[t].pc = "del"
    /\ IF pk_entry = "absent"
       THEN Ends(t, "KeyError") /\ UNCHANGED pk_entry
       ELSE Ends(t, "None") /\ pk_entry' = "absent"
    /\ UNCHANGED pk_first
    /\ UNCHANGED exceptPkVars

\* set: `self._cache[cache_key] = policy`, a policy built just now
SetStoresPolicy(t) ==
    /\ pk_call[t].op = "set" /\ pk_call[t].pc = "start"
    /\ pk_entry' = "fresh"
    /\ Ends(t, "None")
    /\ UNCHANGED pk_first
    /\ UNCHANGED exceptPkVars

\* invalidate(action, target): `if cache_key in self._cache:`
InvalidateTestsKey(t) ==
    /\ pk_call[t].op = "invalidate" /\ pk_call[t].pc = "start"
    /\ IF pk_entry = "absent" THEN Ends(t, "None") ELSE MovesTo(t, "del")
    /\ UNCHANGED <<pk_entry, pk_first>>
    /\ UNCHANGED exceptPkVars

(***************************************************************************)
(*                  SAFE RESUME: ResumeManager                              *)
(***************************************************************************)
MaxResumeOps == 5
MaxAdvances == 2

ResumeModes == {"immediate", "cooldown", "approval", "gradual"}
ResumeAgents == {"a1"}
Approvers == {"admin", "other"}

\* the span of the rate limit in can_resume: `< 3600  # Last hour`
ResumeSpan == 3600

\* how far time.time() moves between two calls
Advances == {60, ResumeSpan}

\* ResumePolicy: the defaults for the cooldown and the gradual interval
ResumePolicies ==
    [mode : ResumeModes, cooldown_seconds : {300},
     require_approval : BOOLEAN, approver_id : {"none", "admin"},
     gradual_steps : {2}, gradual_interval : {60},
     max_resumes_per_hour : {1, 2}]

NoGradual == [current_step |-> 0, total_steps |-> 0, next_step_at |-> 0]
NoRmRet == [op |-> "none", agent_id |-> "none", status |-> "none"]

RmInit ==
    /\ rm_policy \in ResumePolicies
    /\ rm_time = 0
    /\ rm_kill_history = << >>
    /\ rm_resume_history = << >>
    /\ rm_pending_approvals = [a \in ResumeAgents |-> "absent"]
    /\ rm_gradual_state = [a \in ResumeAgents |-> NoGradual]
    /\ rm_ret = NoRmRet
    /\ rm_ops = 0
    /\ rm_advances = 0

RmIdle ==
    /\ rm_policy = [mode |-> "cooldown", cooldown_seconds |-> 300,
                    require_approval |-> FALSE, approver_id |-> "none",
                    gradual_steps |-> 2, gradual_interval |-> 60,
                    max_resumes_per_hour |-> 1]
    /\ rm_time = 0
    /\ rm_kill_history = << >>
    /\ rm_resume_history = << >>
    /\ rm_pending_approvals = [a \in ResumeAgents |-> "absent"]
    /\ rm_gradual_state = [a \in ResumeAgents |-> NoGradual]
    /\ rm_ret = NoRmRet
    /\ rm_ops = 0
    /\ rm_advances = 0

\* [k for k in self.kill_history if k["agent_id"] == agent_id and not k["resumed"]]
ActiveKills(agent_id) ==
    SelectSeq(rm_kill_history,
              LAMBDA k : k.agent_id = agent_id /\ ~k.resumed)

\* the resumes of the agent with time.time() - r["timestamp"] < 3600
RecentResumes(agent_id) ==
    SelectSeq(rm_resume_history,
              LAMBDA r : r.agent_id = agent_id
                         /\ rm_time - r.timestamp < ResumeSpan)

\* `if len(recent_resumes) >= self.policy.max_resumes_per_hour:`
RateLimited(agent_id) ==
    Len(RecentResumes(agent_id)) >= rm_policy.max_resumes_per_hour

\* can_resume(agent_id)
CanResume(agent_id) ==
    LET agent_kills == ActiveKills(agent_id)
        last_kill   == agent_kills[Len(agent_kills)]
    IN  IF agent_kills = << >> THEN TRUE
        ELSE IF /\ rm_policy.mode = "cooldown"
                /\ rm_time - last_kill.timestamp < rm_policy.cooldown_seconds
        THEN FALSE
        ELSE IF /\ rm_policy.mode = "approval" \/ rm_policy.require_approval
                /\ rm_pending_approvals[agent_id] # "approved"
        THEN FALSE
        ELSE ~RateLimited(agent_id)

\* _execute_resume: the agent's kills marked resumed, the resume recorded, the
\* pending approval dropped
KillsResumed(agent_id) ==
    [i \in DOMAIN rm_kill_history |->
        IF rm_kill_history[i].agent_id = agent_id
        THEN [rm_kill_history[i] EXCEPT !.resumed = TRUE]
        ELSE rm_kill_history[i]]

ExecuteResume(agent_id) ==
    /\ rm_kill_history' = KillsResumed(agent_id)
    /\ rm_resume_history' =
           Append(rm_resume_history,
                  [agent_id |-> agent_id, timestamp |-> rm_time])
    /\ rm_pending_approvals' = [rm_pending_approvals EXCEPT ![agent_id] = "absent"]

\* one more call is made, and returns with the status given
RmReturns(op, agent_id, status) ==
    /\ rm_ops' = rm_ops + 1
    /\ rm_ret' = [op |-> op, agent_id |-> agent_id, status |-> status]

\* time.time() moves on between two calls
RmTimePasses(d) ==
    /\ rm_advances < MaxAdvances
    /\ rm_advances' = rm_advances + 1
    /\ rm_time' = rm_time + d
    /\ UNCHANGED <<rm_policy, rm_kill_history, rm_resume_history,
                   rm_pending_approvals, rm_gradual_state, rm_ret, rm_ops>>
    /\ UNCHANGED exceptRmVars

\* record_kill(agent_id, reason)
RecordKill(agent_id) ==
    /\ rm_ops < MaxResumeOps
    /\ rm_kill_history' =
           Append(rm_kill_history,
                  [agent_id |-> agent_id, timestamp |-> rm_time,
                   resumed |-> FALSE])
    /\ RmReturns("record_kill", agent_id, "recorded")
    /\ UNCHANGED <<rm_policy, rm_time, rm_advances, rm_resume_history,
                   rm_pending_approvals, rm_gradual_state>>
    /\ UNCHANGED exceptRmVars

\* request_resume(agent_id, user_id, reason)
RequestResume(agent_id) ==
    /\ rm_ops < MaxResumeOps
    /\ IF CanResume(agent_id) /\ rm_policy.mode \in {"immediate", "cooldown"}
       THEN /\ ExecuteResume(agent_id)
            /\ RmReturns("request_resume", agent_id, "resumed")
            /\ UNCHANGED rm_gradual_state
       ELSE IF rm_policy.mode = "approval"
       THEN /\ rm_pending_approvals' =
                   [rm_pending_approvals EXCEPT ![agent_id] = "requested"]
            /\ RmReturns("request_resume", agent_id, "pending_approval")
            /\ UNCHANGED <<rm_kill_history, rm_resume_history, rm_gradual_state>>
       ELSE IF rm_policy.mode = "gradual"
       THEN /\ rm_gradual_state' =
                   [rm_gradual_state EXCEPT ![agent_id] =
                      [current_step |-> 0,
                       total_steps |-> rm_policy.gradual_steps,
                       next_step_at |-> rm_time + rm_policy.gradual_interval]]
            /\ RmReturns("request_resume", agent_id, "gradual_resume_started")
            /\ UNCHANGED <<rm_kill_history, rm_resume_history,
                           rm_pending_approvals>>
       ELSE /\ RmReturns("request_resume", agent_id, "blocked")
            /\ UNCHANGED <<rm_kill_history, rm_resume_history,
                           rm_pending_approvals, rm_gradual_state>>
    /\ UNCHANGED <<rm_policy, rm_time, rm_advances>>
    /\ UNCHANGED exceptRmVars

\* approve_resume(agent_id, approver_id)
ApproveResume(agent_id, approver_id) ==
    /\ rm_ops < MaxResumeOps
    /\ IF rm_pending_approvals[agent_id] = "absent"
       THEN /\ RmReturns("approve_resume", agent_id, "error")
            /\ UNCHANGED <<rm_kill_history, rm_resume_history,
                           rm_pending_approvals>>
       ELSE IF rm_policy.approver_id # "none"
               /\ approver_id # rm_policy.approver_id
       THEN /\ RmReturns("approve_resume", agent_id, "error")
            /\ UNCHANGED <<rm_kill_history, rm_resume_history,
                           rm_pending_approvals>>
       ELSE /\ ExecuteResume(agent_id)
            /\ RmReturns("approve_resume", agent_id, "resumed")
    /\ UNCHANGED <<rm_policy, rm_time, rm_advances, rm_gradual_state>>
    /\ UNCHANGED exceptRmVars

\* deny_resume(agent_id, approver_id)
DenyResume(agent_id) ==
    /\ rm_ops < MaxResumeOps
    /\ rm_pending_approvals' = [rm_pending_approvals EXCEPT ![agent_id] = "absent"]
    /\ RmReturns("deny_resume", agent_id, "denied")
    /\ UNCHANGED <<rm_policy, rm_time, rm_advances, rm_kill_history,
                   rm_resume_history, rm_gradual_state>>
    /\ UNCHANGED exceptRmVars

\* get_gradual_permissions(agent_id)
GetGradualPermissions(agent_id) ==
    LET state == rm_gradual_state[agent_id]
        due   == rm_time >= state.next_step_at
        step  == IF due THEN state.current_step + 1 ELSE state.current_step
    IN
    /\ rm_ops < MaxResumeOps
    /\ IF state = NoGradual
       THEN /\ RmReturns("get_gradual_permissions", agent_id, "full_access")
            /\ UNCHANGED <<rm_kill_history, rm_resume_history,
                           rm_pending_approvals, rm_gradual_state>>
       ELSE IF due /\ step >= state.total_steps
       THEN /\ rm_gradual_state' = [rm_gradual_state EXCEPT ![agent_id] = NoGradual]
            /\ ExecuteResume(agent_id)
            /\ RmReturns("get_gradual_permissions", agent_id, "full_access")
       ELSE /\ rm_gradual_state' =
                   [rm_gradual_state EXCEPT ![agent_id] =
                      IF due
                      THEN [state EXCEPT
                              !.current_step = step,
                              !.next_step_at = rm_time + rm_policy.gradual_interval]
                      ELSE state]
            /\ RmReturns("get_gradual_permissions", agent_id, "restricted")
            /\ UNCHANGED <<rm_kill_history, rm_resume_history,
                           rm_pending_approvals>>
    /\ UNCHANGED <<rm_policy, rm_time, rm_advances>>
    /\ UNCHANGED exceptRmVars

\* the components besides the Threshold Engine, the Fail-Mode Handler and the
\* Kill Executor, idle
ExtIdle == TreeIdle /\ TermIdle /\ NetIdle /\ SwIdle /\ RfIdle /\ CcIdle
    /\ ExIdle /\ PkIdle /\ RmIdle

(***************************************************************************)
(*                          SPECIFICATIONS                                 *)
(***************************************************************************)
\* the clock advances between calls (the last return value is no longer current)
Tick ==
    /\ now < MaxTime
    /\ now' = now + 1
    /\ thr_ret' = NoThrRet
    /\ fm_ret' = NoFmRet
    /\ UNCHANGED <<thresholds, action_history, cooldowns, breach_history, stats,
                   breach_log>>
    /\ UNCHANGED <<fm_built, fm_config, cache, cache_counts, fail_counts,
                   written, fm_ops>>
    /\ UNCHANGED <<killVars, extVars>>

ThrNext ==
    \/ \E a \in Agents, ty \in ActionTypes : CheckAction(a, ty)
    \/ \E a \in Agents : ResetAgent(a)
    \/ \E config \in ThresholdConfigs(ConfiguredType) : AddThreshold(config)
    \/ \E ty \in ActionTypes : RemoveThreshold(ty)
    \/ Tick

CacheNext ==
    \/ \E a \in Actions, t \in Targets : Get(a, t)
    \/ \E a \in Actions, t \in Targets, d \in Decisions :
          Set(a, t, d[1], d[2])
    \/ \E ha \in BOOLEAN, ht \in BOOLEAN, a \in Actions, t \in Targets :
          Invalidate(ha, a, ht, t)
    \/ \E i \in 1..MaxEntries + 1, fld \in PolicyFields :
          \E v \in FieldValues(fld) : Tamper(i, fld, v)
    \/ Tick

FailNext ==
    \/ \E a \in Actions, t \in Targets, d \in Decisions :
          CacheResult(a, t, d[1], d[2])
    \/ \E a \in Actions, t \in Targets : OnValidationFailure(a, t)
    \/ \E i \in 1..MaxEntries + 1, fld \in PolicyFields :
          \E v \in FieldValues(fld) : Tamper(i, fld, v)
    \/ Tick

KillNext ==
    \/ \E e \in BOOLEAN : KillStart(e)
    \/ SendSoftKill
    \/ WaitForDeathTest
    \/ \E over \in 0..MaxOvershoot : WaitForDeathSleep(over)
    \/ SendHardKill
    \/ VerifyDeathPoll
    \/ \E over \in 0..MaxOvershoot : VerifyDeathSleep(over)
    \/ ProcExits
    \/ PermissionRevoked

TreeNext ==
    \/ \E pid \in Pids : KillTreeStart(pid)
    \/ \E r \in TreeKillResults : KillTreeChild(r)
    \/ \E r \in TreeKillResults : KillTreeRoot(r)

CoreIdle == now = 0 /\ ThrIdle /\ FailIdle /\ KillIdle

ThresholdsInit == now = 0 /\ ThrInit /\ FailIdle /\ KillIdle /\ ExtIdle
PolicyCacheStart == now = 0 /\ ThrIdle /\ PolicyCacheInit /\ KillIdle /\ ExtIdle
FailModeInit == now = 0 /\ ThrIdle /\ FailInit /\ KillIdle /\ ExtIdle
HardKillInit == now = 0 /\ ThrIdle /\ FailIdle /\ KillInit /\ ExtIdle
KillTreeInit == CoreIdle /\ TreeInit /\ TermIdle /\ NetIdle /\ SwIdle /\ RfIdle /\ CcIdle
    /\ ExIdle /\ PkIdle /\ RmIdle

TermNext ==
    \/ \E a \in TermAgents, pid \in TermPids : RegisterAgent(a, pid)
    \/ \E a \in TermAgents : UnregisterAgent(a)
    \/ \E t \in Callers, a \in TermAgents : KillAgentCheck(t, a)
    \/ \E t \in Callers : KillAgentRead(t)
    \/ \E t \in Callers, pid \in TermPids : KillByPidBegin(t, pid)
    \/ \E t \in Callers, r \in TermOutcomes : TermKill(t, r)
    \/ \E t \in Callers : TermFinish(t)

TerminatorInit == CoreIdle /\ TreeIdle /\ TermInit /\ NetIdle /\ SwIdle /\ RfIdle /\ CcIdle
    /\ ExIdle /\ PkIdle /\ RmIdle

NetNext ==
    \/ \E id \in FwIds : BlockAllTraffic(id)
    \/ \E id \in FwIds : BlockOutbound(id)
    \/ \E ip \in IpAddresses : BlockIp(ip)
    \/ \E id \in FwIds \cup NetAgents : RestoreAccess(id)
    \/ \E a \in NetAgents, pid \in NetPids, uid \in NetUids :
          KillNetwork(a, pid, uid)
    \/ \E a \in NetAgents : RestoreNetwork(a)
    \/ KillAllNetwork
    \/ RestoreAllNetwork

NetworkKillInit == CoreIdle /\ TreeIdle /\ TermIdle /\ NetInit /\ SwIdle /\ RfIdle /\ CcIdle
    /\ ExIdle /\ PkIdle /\ RmIdle

SwNext ==
    \/ \E r \in Recordings, ts \in SwStamps : SwRecord(r[1], r[2], ts)
    \/ \E ts \in SwStamps : CheckThresholds(ts)

\* the MetricTrackers of one agent, recorded to and read
TotalsNext ==
    \/ \E r \in Recordings, ts \in SwStamps : SwRecord(r[1], r[2], ts)
    \/ \E m \in ReadMetrics, size \in WindowSizes, ts \in ReadStamps :
          GetTotal(m, size, ts)
    \/ \E m \in ReadMetrics, ts \in ReadStamps : GetAllTotals(m, ts)

\* trackers with no thresholds over them
WindowTotalsInit ==
    /\ now = 1
    /\ ThrIdle /\ FailIdle /\ KillIdle
    /\ TreeIdle /\ TermIdle /\ NetIdle /\ SwIdle /\ RfIdle /\ CcIdle
    /\ ExIdle /\ PkIdle /\ RmIdle

\* the clock of a running system is past 0; the calls of one run are made
\* within the same second
SlidingWindowInit ==
    /\ now = 1
    /\ ThrIdle /\ FailIdle /\ KillIdle
    /\ TreeIdle /\ TermIdle /\ NetIdle /\ SwInit /\ RfIdle /\ CcIdle
    /\ ExIdle /\ PkIdle /\ RmIdle

\* the Threshold Engine
SpecThresholds == ThresholdsInit /\ [][ThrNext]_vars

\* the Policy Cache on its own
SpecPolicyCache == PolicyCacheStart /\ [][CacheNext]_vars

\* the Fail-Mode Handler and its Policy Cache
SpecFailMode == FailModeInit /\ [][FailNext]_vars

\* HardKill.kill against one process
SpecHardKill == HardKillInit /\ [][KillNext]_vars

\* AgentTerminator, called from two threads
SpecTerminator == TerminatorInit /\ [][TermNext]_vars

\* the network kill manager and the firewall of its platform
SpecNetworkKill == NetworkKillInit /\ [][NetNext]_vars

\* one SlidingWindowDetector
SpecSlidingWindow == SlidingWindowInit /\ [][SwNext]_vars

\* MetricTracker: record, get_total, get_all_totals
SpecWindowTotals == WindowTotalsInit /\ [][TotalsNext]_vars

\* BatchKill.kill_tree over one process table
SpecKillTree == KillTreeInit /\ [][TreeNext]_vars

\* the steps of a kill(pid) call that has been entered: every one of them is
\* a system call or a sleep that returns, so the call keeps taking steps
KillCallSteps ==
    \/ SendSoftKill
    \/ WaitForDeathTest
    \/ \E over \in 0..MaxOvershoot : WaitForDeathSleep(over)
    \/ SendHardKill
    \/ VerifyDeathPoll
    \/ \E over \in 0..MaxOvershoot : VerifyDeathSleep(over)

\* HardKill.kill, with a call that was entered running on
SpecHardKillFair == SpecHardKill /\ WF_vars(KillCallSteps)

RfNext ==
    \/ \E action \in FenceActions, target \in FenceTargets, amount \in Amounts,
          api \in ApiOutcomes : Validate(action, target, amount, api)
    \/ RfKill
    \/ RfReset
    \/ GetStatus

RuntimeFenceInit ==
    CoreIdle /\ TreeIdle /\ TermIdle /\ NetIdle /\ SwIdle /\ RfInit /\ CcIdle
        /\ ExIdle /\ PkIdle /\ RmIdle

\* one RuntimeFence and the calls made on it
SpecRuntimeFence == RuntimeFenceInit /\ [][RfNext]_vars

CcNext ==
    \/ \E t \in Threads, a \in CheckedAgents : CallCheckAction(t, a)
    \/ \E t \in Threads : EnterCheckAction(t)
    \/ \E t \in Threads : RunOnBreach(t)
    \/ \E t \in Threads : RunOnKill(t)

ConcurrentChecksInit ==
    CoreIdle /\ TreeIdle /\ TermIdle /\ NetIdle /\ SwIdle /\ RfIdle /\ CcInit
        /\ ExIdle /\ PkIdle /\ RmIdle

\* check_action called from several threads on one BehavioralThresholds
SpecConcurrentChecks == ConcurrentChecksInit /\ [][CcNext]_vars

ExNext ==
    \/ ExTimePasses
    \/ \E a \in ExAgents, f \in ExTargets, b \in ExSizes :
           RecordDataAccess(a, f, b)

ExfiltrationInit ==
    CoreIdle /\ TreeIdle /\ TermIdle /\ NetIdle /\ SwIdle /\ RfIdle /\ CcIdle
        /\ ExInit /\ PkIdle /\ RmIdle

\* ExfiltrationDetector.record_data_access called as time passes
SpecExfiltration == ExfiltrationInit /\ [][ExNext]_vars

PkNext ==
    \/ \E t \in CacheThreads, op \in CacheOps : CallCache(t, op)
    \/ \E t \in CacheThreads : GetTestsKey(t)
    \/ \E t \in CacheThreads : GetReadsPolicy(t)
    \/ \E t \in CacheThreads : DeletesKey(t)
    \/ \E t \in CacheThreads : SetStoresPolicy(t)
    \/ \E t \in CacheThreads : InvalidateTestsKey(t)

ConcurrentCacheInit ==
    CoreIdle /\ TreeIdle /\ TermIdle /\ NetIdle /\ SwIdle /\ RfIdle /\ CcIdle
        /\ ExIdle /\ PkInit /\ RmIdle

\* get, set and invalidate of one key called from several threads, one call each
SpecConcurrentCache == ConcurrentCacheInit /\ [][PkNext]_vars

RmNext ==
    \/ \E d \in Advances : RmTimePasses(d)
    \/ \E a \in ResumeAgents : RecordKill(a)
    \/ \E a \in ResumeAgents : RequestResume(a)
    \/ \E a \in ResumeAgents, u \in Approvers : ApproveResume(a, u)
    \/ \E a \in ResumeAgents : DenyResume(a)
    \/ \E a \in ResumeAgents : GetGradualPermissions(a)

SafeResumeInit ==
    CoreIdle /\ TreeIdle /\ TermIdle /\ NetIdle /\ SwIdle /\ RfIdle /\ CcIdle
        /\ ExIdle /\ PkIdle /\ RmInit

\* one ResumeManager: kills recorded, resumes requested, approved, denied and
\* stepped as time passes
SpecSafeResume == SafeResumeInit /\ [][RmNext]_vars

(***************************************************************************)
(*                     PROPERTIES: THRESHOLD ENGINE                        *)
(***************************************************************************)
\* a check_action call on a configured type has just returned, and it was not
\* answered by the cooldown branch
ThresholdChecked ==
    /\ thr_ret.op = "check_action"
    /\ thresholds[thr_ret.action_type] # NoThreshold
    /\ thr_ret.breach.threshold_name # "Cooldown Active"

\* the recorded (allowed) calls of the pair that are within the window at time t
InWindow(a, ty, t) ==
    Cardinality({ i \in 1..Len(action_history[a][ty]) :
                    t - action_history[a][ty][i] < thresholds[ty].window_seconds })

\* the position of the call that has just returned among the calls of its pair
\* within the window: the allowed ones before it, plus itself
CallNumber ==
    IF thr_ret.allowed
    THEN InWindow(thr_ret.agent_id, thr_ret.action_type, thr_ret.at)
    ELSE InWindow(thr_ret.agent_id, thr_ret.action_type, thr_ret.at) + 1

\* C1 as stated: outside a cooldown, the first N-1 calls within W are allowed
\* and the N-th is blocked with a ThresholdBreach.
C1_NthCallBlocked ==
    ThresholdChecked =>
        (thr_ret.allowed <=>
            CallNumber <= thresholds[thr_ret.action_type].max_count - 1)

\* C1 amended: outside a cooldown, a call is allowed exactly when it is at most
\* the N-th within W; the first call that is blocked is the (N+1)-th, and it
\* returns a ThresholdBreach carrying count >= N and limit = N, which is also
\* the last entry of the breach history.
C1_FirstNAllowedNextBlocked ==
    ThresholdChecked =>
        LET N == thresholds[thr_ret.action_type].max_count
        IN  /\ thr_ret.allowed <=> CallNumber <= N
            /\ thr_ret.allowed => thr_ret.breach = NoBreach
            /\ ~thr_ret.allowed =>
                  /\ thr_ret.breach.count = CallNumber - 1
                  /\ thr_ret.breach.count >= N
                  /\ thr_ret.breach.limit = N
                  /\ thr_ret.breach.agent_id = thr_ret.agent_id
                  /\ thr_ret.breach.action_type = thr_ret.action_type
                  /\ Len(breach_history) > 0
                  /\ breach_history[Len(breach_history)] = thr_ret.breach

\* C1 witness: with N = 2, the third call within the window has just been
\* blocked with a ThresholdBreach, after two allowed calls.
C1_Witness ==
    /\ ThresholdChecked
    /\ ~thr_ret.allowed
    /\ thresholds[thr_ret.action_type].max_count = 2
    /\ thr_ret.breach.count = 2
    /\ CallNumber = 3

\* a check_action call of a pair has just returned inside the cooldown
\* interval [t, t + C) of that pair's last threshold breach
InBreachCooldown ==
    /\ thr_ret.op = "check_action"
    /\ thr_ret.at < breach_log[thr_ret.agent_id][thr_ret.action_type].until

\* C2 as stated: once a threshold breach was emitted at t with cooldown C,
\* every check_action of the pair in [t, t + C) returns blocked.
C2_BlockedUntilExpiry == InBreachCooldown => ~thr_ret.allowed

\* the call that has just returned was answered by the cooldown branch
CooldownAnswer ==
    /\ ~thr_ret.allowed
    /\ thr_ret.breach =
          CooldownBreach(thr_ret.agent_id, thr_ret.action_type, thr_ret.at)

\* the call that has just returned is the one that emitted the breach
BreachAnswer ==
    /\ ~thr_ret.allowed
    /\ thr_ret.breach.threshold_name # "Cooldown Active"
    /\ thr_ret.breach.timestamp = thr_ret.at
    /\ breach_log[thr_ret.agent_id][thr_ret.action_type].until =
          thr_ret.at + thresholds[thr_ret.action_type].cooldown_seconds

\* a step that is a check_action call of pair (a, ty) made while the pair is
\* inside the cooldown interval of its last breach, with no reset_agent since
CooldownCallStep(a, ty) ==
    /\ stats'.total_checks = stats.total_checks + 1
    /\ thr_ret'.agent_id = a
    /\ thr_ret'.action_type = ty
    /\ now < breach_log[a][ty].until
    /\ ~breach_log[a][ty].reset

\* C2 amended: once a threshold breach was emitted at t with cooldown C, every
\* check_action of the pair in [t, t + C) returns blocked, unless
\* reset_agent(agent) was called after the breach; the calls after the
\* breaching one are answered with the "Cooldown Active" breach (count 0), and
\* they read and change neither the pair's history nor its cooldown.
C2_BlockedUntilExpiryOrReset ==
    /\ [](InBreachCooldown
           /\ ~breach_log[thr_ret.agent_id][thr_ret.action_type].reset
             => (CooldownAnswer \/ BreachAnswer))
    /\ [][\A a \in Agents, ty \in ActionTypes :
            CooldownCallStep(a, ty) =>
                /\ ~thr_ret'.allowed
                /\ thr_ret'.breach = CooldownBreach(a, ty, now)
                /\ action_history' = action_history
                /\ cooldowns' = cooldowns
                /\ breach_history' = breach_history]_vars

\* C2 witness: a call is blocked by the cooldown although the window has
\* emptied (no recorded call of the pair is within the window any more).
C2_Witness ==
    /\ InBreachCooldown
    /\ CooldownAnswer
    /\ thresholds[thr_ret.action_type] # NoThreshold
    /\ Len(action_history[thr_ret.agent_id][thr_ret.action_type]) > 0
    /\ InWindow(thr_ret.agent_id, thr_ret.action_type, thr_ret.at) = 0

\* C3: every ThresholdBreach produced for a threshold violation has
\* should_kill = TRUE iff the threshold's breach action is kill or
\* count >= max_count x multiplier_for_kill (the multiplier is in halves).
C3_ShouldKillIff ==
    ThresholdChecked /\ ~thr_ret.allowed =>
        LET threshold == thresholds[thr_ret.action_type]
        IN  /\ thr_ret.breach.breach_action = threshold.action_on_breach
            /\ thr_ret.breach.should_kill <=>
                  \/ threshold.action_on_breach = "kill"
                  \/ 2 * thr_ret.breach.count
                       >= threshold.max_count * threshold.multiplier_for_kill

\* C3 witness: a breach of a threshold whose action is block, with multiplier
\* 1.5, that is marked should_kill because the count reached 1.5 x max_count.
C3_Witness ==
    /\ ThresholdChecked
    /\ ~thr_ret.allowed
    /\ thr_ret.breach.breach_action = "block"
    /\ thresholds[thr_ret.action_type].multiplier_for_kill = 3
    /\ thr_ret.breach.should_kill

(***************************************************************************)
(*                  PROPERTIES: FAIL-MODE HANDLER                          *)
(***************************************************************************)
\* on_validation_failure has just returned
FailureHandled == fm_ret.op = "on_validation_failure"

\* a step that is one on_validation_failure call
FailureStep ==
    fail_counts'.closed + fail_counts'.cached + fail_counts'.open
      = fail_counts.closed + fail_counts.cached + fail_counts.open + 1

\* the cache holds, for the pair, an entry that is unexpired at time t and
\* whose recomputed hash equals the stored one
Usable(action, target, t) ==
    \E i \in 1..Len(cache) :
        /\ cache[i].key = MakeKey(action, target)
        /\ t <= cache[i].policy.expires_at
        /\ VerifyIntegrity(cache[i].policy)

\* the entry the cache holds for the pair (when there is one)
Entry(action, target) ==
    cache[CHOOSE i \in 1..Len(cache) : cache[i].key = MakeKey(action, target)]
      .policy

\* C4: a handler whose configuration gives no mode is in CLOSED mode, and
\* the decision of a handler in CLOSED mode is always allowed = FALSE with
\* risk score 100, whatever the cache holds.
C4_DefaultClosedDenies ==
    /\ fm_built.how \in {"default", "factory_nomode"}
         => fm_config.mode = "closed"
    /\ FailureHandled /\ fm_config.mode = "closed"
         => /\ ~fm_ret.allowed
            /\ fm_ret.risk_score = 100
            /\ fm_ret.reason = "FAIL-CLOSED"

\* C4 witness: a handler built with no mode has denied with risk 100 a pair
\* for which the cache holds a usable entry that allows it.
C4_Witness ==
    /\ fm_built.how = "default"
    /\ FailureHandled
    /\ ~fm_ret.allowed
    /\ fm_ret.risk_score = 100
    /\ Usable(fm_ret.action, fm_ret.target, now)
    /\ Entry(fm_ret.action, fm_ret.target).allowed

\* C5: in CACHED mode on_validation_failure returns the (allowed, risk_score)
\* of the pair's cache entry when that entry exists, is unexpired and passes
\* the integrity check; in every other case it returns the CLOSED decision
\* (allowed = FALSE, risk score 100).
C5_CachedOrClosed ==
    [][FailureStep /\ fm_config.mode = "cached" =>
         IF Usable(fm_ret'.action, fm_ret'.target, now)
         THEN /\ fm_ret'.allowed
                   = Entry(fm_ret'.action, fm_ret'.target).allowed
              /\ fm_ret'.risk_score
                   = Entry(fm_ret'.action, fm_ret'.target).risk_score
         ELSE /\ ~fm_ret'.allowed
              /\ fm_ret'.risk_score = 100]_vars

\* C5 witness: a handler in CACHED mode has answered from a cached entry that
\* allows the action, some time after the entry was cached.
C5_Witness ==
    /\ fm_config.mode = "cached"
    /\ FailureHandled
    /\ fm_ret.found
    /\ fm_ret.allowed
    /\ fm_ret.risk_score = 0
    /\ fm_ret.at > fm_ret.policy.cached_at

\* the spellings of "open" among the mode strings
OpenSpellings ==
    { <<"o","p","e","n">>, <<"O","P","E","N">>, <<"O","p","e","n">> }

\* the handler was explicitly configured as OPEN
ExplicitlyOpen ==
    \/ fm_built.how = "explicit" /\ fm_built.mode = "open"
    \/ fm_built.how = "factory" /\ fm_built.mode_string \in OpenSpellings

\* C6: OPEN mode is in effect, and the FAIL-OPEN decision is given, only when
\* the handler was explicitly configured as OPEN; the default configuration
\* and the factory called with no mode or with an unrecognised mode string
\* yield CLOSED.
C6_OpenOnlyExplicit ==
    /\ fm_config.mode = "open" => ExplicitlyOpen
    /\ FailureHandled /\ fm_ret.reason = "FAIL-OPEN" => ExplicitlyOpen
    /\ fm_built.how \in {"default", "factory_nomode"}
         => fm_config.mode = "closed"
    /\ fm_built.how = "factory"
         /\ fm_built.mode_string \in { <<"o","f","f">>, << >> }
         => fm_config.mode = "closed"

\* C6 witness: a handler made by the factory from an unrecognised mode string
\* has denied an action, and so has not fallen open.
C6_Witness ==
    /\ fm_built.how = "factory"
    /\ fm_built.mode_string = <<"o","f","f">>
    /\ FailureHandled
    /\ ~fm_ret.allowed
    /\ fm_ret.reason = "FAIL-CLOSED"

(***************************************************************************)
(*                     PROPERTIES: POLICY CACHE                            *)
(***************************************************************************)
\* a step that is one PolicyCache.get call
GetStep ==
    cache_counts'.hits + cache_counts'.misses
      = cache_counts.hits + cache_counts.misses + 1

\* set() was called for the pair, and the cache still holds what it stored
StillAsSet(action, target) ==
    /\ written[MakeKey(action, target)].set
    /\ \E i \in 1..Len(cache) :
          /\ cache[i].key = MakeKey(action, target)
          /\ cache[i].policy = written[MakeKey(action, target)].policy

\* set() was called for the pair, and its entry was not altered since
\* (it may have been removed)
NotAlteredSinceSet(action, target) ==
    /\ written[MakeKey(action, target)].set
    /\ \A i \in 1..Len(cache) :
          cache[i].key = MakeKey(action, target)
            => cache[i].policy = written[MakeKey(action, target)].policy

\* C7: after set(action, target, allowed, risk) at time t, a get of the pair
\* before t + TTL returns an entry with the same allowed and risk_score, whose
\* integrity check passes; a get after t + TTL returns nothing.
C7_RoundTrip ==
    [][GetStep =>
         LET a == fm_ret'.action
             tg == fm_ret'.target
             w == written[MakeKey(a, tg)]
         IN  /\ StillAsSet(a, tg) /\ now < w.at + fm_config.cache_ttl_seconds
                  => /\ fm_ret'.found
                     /\ fm_ret'.policy.allowed = w.allowed
                     /\ fm_ret'.policy.risk_score = w.risk_score
                     /\ fm_ret'.policy.policy_hash
                          = ComputeHash(fm_ret'.policy)
             /\ NotAlteredSinceSet(a, tg)
                  /\ now > w.at + fm_config.cache_ttl_seconds
                  => /\ ~fm_ret'.found
                     /\ fm_ret'.policy = NoPolicy]_vars

\* C7 witness: a get made after the set, at a later time within the TTL, has
\* returned the entry set() stored, with allowed = FALSE and risk score 85.
C7_Witness ==
    /\ fm_ret.op = "get"
    /\ fm_ret.found
    /\ written[MakeKey(fm_ret.action, fm_ret.target)].set
    /\ fm_ret.policy = written[MakeKey(fm_ret.action, fm_ret.target)].policy
    /\ fm_ret.at > fm_ret.policy.cached_at
    /\ ~fm_ret.policy.allowed
    /\ fm_ret.policy.risk_score = 85

\* C8: get never returns an entry of which one of the stored fields (action,
\* target, allowed, risk_score, cached_at, expires_at) was altered after
\* set() stored it.
C8_NoAlteredEntryReturned ==
    fm_ret.op = "get" /\ fm_ret.found =>
        LET w == written[MakeKey(fm_ret.action, fm_ret.target)].policy
        IN  /\ fm_ret.policy.action = w.action
            /\ fm_ret.policy.target = w.target
            /\ fm_ret.policy.allowed = w.allowed
            /\ fm_ret.policy.risk_score = w.risk_score
            /\ fm_ret.policy.cached_at = w.cached_at
            /\ fm_ret.policy.expires_at = w.expires_at

\* C9: the number of cache entries never exceeds max_cache_entries, for every
\* max_cache_entries >= 1.
C9_NeverExceedsMax == Len(cache) <= fm_config.max_cache_entries

(***************************************************************************)
(*                       PROPERTIES: HARD KILL                             *)
(***************************************************************************)
\* kill(pid) with escalation has returned, for a process that was alive and
\* could be signalled when it was called
KillReturned ==
    /\ kpc = "done"
    /\ kill_call.escalate
    /\ kill_obs.alive_at_start
    /\ proc.signalable

\* the process exited in response to the graceful signal, before the soft
\* timeout had elapsed since that signal, and before any forceful signal
ExitedWithinSoftTimeout ==
    /\ kill_obs.soft_at >= 0
    /\ kill_obs.died_at >= kill_obs.soft_at
    /\ kill_obs.died_at - kill_obs.soft_at < hk_config.soft_timeout
    /\ kill_obs.hard_at >= 0 => kill_obs.died_at <= kill_obs.hard_at
    /\ proc.handles_term

\* the process ignored the graceful signal and died on the forceful one
\* before kill returned
DiedOnForceful ==
    /\ ~proc.handles_term
    /\ kill_obs.hard_at >= 0
    /\ kill_obs.died_at >= kill_obs.hard_at
    /\ kill_obs.died_in_call

\* C10: kill(pid) returns result soft with hard_signal_sent = FALSE for a
\* process that exits within the soft timeout in response to the graceful
\* signal, and returns result hard with hard_signal_sent = TRUE, after the
\* soft timeout has elapsed, for a process that ignores the graceful signal
\* and dies on the forceful one.
C10_SoftOrHardByResponse ==
    KillReturned =>
        /\ ExitedWithinSoftTimeout
             => report.result = "soft" /\ ~report.hard_signal_sent
        /\ DiedOnForceful
             => /\ report.result = "hard"
                /\ report.hard_signal_sent
                /\ kill_obs.hard_at - kill_obs.soft_at >= hk_config.soft_timeout

IsAncestor(q, p) == q \in AncestorsIn(kt_parent, p, MaxProcs)

\* the processes below the pid given to kill_tree
Descendants == { p \in Pids : IsAncestor(kt_call.pid, p) }

\* C12: kill_tree hands every descendant to HardKill.kill before any of that
\* descendant's own ancestors, and the root last: a pid is killed only when
\* all its descendants have been, exactly the descendants and the root are
\* killed, each once.
C12_LeavesBeforeAncestors ==
    /\ \A i, j \in 1..Len(kt_killed) :
          IsAncestor(kt_killed[i], kt_killed[j]) => j < i
    /\ \A i \in 1..Len(kt_killed) :
          \A p \in Pids :
              IsAncestor(kt_killed[i], p) =>
                  \E j \in 1..(i - 1) : kt_killed[j] = p
    /\ \A i, j \in 1..Len(kt_killed) : kt_killed[i] = kt_killed[j] => i = j
    /\ \A i \in 1..Len(kt_killed) :
          kt_killed[i] \in Descendants \cup {kt_call.pid}
    /\ kt_call.pc = "done" =>
          /\ { kt_killed[i] : i \in 1..Len(kt_killed) }
                = Descendants \cup {kt_call.pid}
          /\ kt_killed[Len(kt_killed)] = kt_call.pid
          /\ Len(kt_reports) = Len(kt_killed)
          /\ \A i \in 1..Len(kt_killed) : kt_reports[i].pid = kt_killed[i]

\* C12 witness: a tree of four processes, with a grandchild and with two
\* children of the root, has been killed.
C12_Witness ==
    /\ kt_call.pc = "done"
    /\ Len(kt_killed) = 4
    /\ \E p, q \in Descendants : IsAncestor(q, p)
    /\ \E p, q \in Descendants :
          p # q /\ kt_parent[p] = kt_call.pid /\ kt_parent[q] = kt_call.pid

(***************************************************************************)
(*                    PROPERTIES: AGENT TERMINATOR                         *)
(***************************************************************************)
\* a step in which the call of thread t gets past its kill and returns
Finishes(t) == at_call[t].pc = "finish" /\ at_call'[t].pc = "returned"

\* the results of a kill that did not succeed
KillFailures == {"failed", "denied", "zombie"}

\* C13: kill_agent unregisters the agent only when the kill succeeded; after
\* a kill whose report is failed, permission denied or zombie the agent is
\* still registered with its pid.
C13_FailedKillKeepsAgent ==
    [][\A t \in Callers :
          /\ Finishes(t)
          /\ at_call[t].op = "kill_agent"
          /\ at_call[t].report.result \in KillFailures
          /\ Registered(at_agents, at_call[t].agent_id)
          => /\ Registered(at_agents', at_call[t].agent_id)
             /\ PidOf(at_agents', at_call[t].agent_id)
                  = PidOf(at_agents, at_call[t].agent_id)]_vars

\* C14 as stated: every kill_agent call appends a record to the kill history,
\* whatever its outcome.
C14_EveryCallAppends ==
    \A t \in Callers :
        at_call[t].pc = "returned" /\ at_call[t].op = "kill_agent"
          => Len(at_history) > at_call[t].history_at_start

\* C14 amended: every kill_agent call that finds the agent registered and
\* gets a report from the kill appends that report to the kill history,
\* whatever the result (a call for an agent that is not registered returns
\* None and appends nothing); and the history is append-only: a step changes
\* it only by adding one entry at the end.
C14_ReportedCallAppends ==
    /\ [](\A t \in Callers :
             at_call[t].pc = "returned" /\ at_call[t].ret = "report"
               => \E i \in (at_call[t].history_at_start + 1)..Len(at_history) :
                     at_history[i] = at_call[t].report)
    /\ [][/\ \A t \in Callers :
                Finishes(t) =>
                    at_history' = Append(at_history, at_call[t].report)
          /\ at_history' # at_history =>
                /\ Len(at_history') = Len(at_history) + 1
                /\ SubSeq(at_history', 1, Len(at_history)) = at_history]_vars

\* C14 witness: a kill_agent call whose kill was denied has returned, and its
\* report is the second entry of the history.
C14_Witness ==
    \E t \in Callers :
        /\ at_call[t].pc = "returned"
        /\ at_call[t].op = "kill_agent"
        /\ at_call[t].report.result = "denied"
        /\ Len(at_history) = 2
        /\ at_history[2] = at_call[t].report

\* C15: when two kill_agent requests for the same agent overlap or follow
\* each other, the kill sequence runs at most once for the agent, and the
\* duplicate request returns a KillReport (the in-flight or most recent one).
C15_KillNotReentered ==
    /\ \A a \in TermAgents : at_obs.runs[a] <= 1
    /\ \A t \in Callers :
          /\ at_call[t].pc = "returned"
          /\ at_call[t].op = "kill_agent"
          /\ at_call[t].duplicate
          => at_call[t].ret = "report"

(***************************************************************************)
(*                      PROPERTIES: NETWORK KILL                           *)
(***************************************************************************)
\* the step is a completed call of op with this identifier
NetCall(op, identifier) ==
    nk_ret'.op = op /\ nk_ret'.ident = identifier

\* the rules not installed for the identifier, in order
RulesOfOthers(rules, identifier) ==
    SelectSeq(rules, LAMBDA r : r.owner # identifier)

\* C16: block_all is idempotent: a second block_all_traffic on an identifier
\* that is already blocked leaves the rules reported by list_rules unchanged.
C16_BlockAllIdempotent ==
    [][\A id \in FwIds :
          /\ NetCall("block_all_traffic", id)
          /\ FwIsBlocked(nk_platform, fw_root, fw_rules, id)
          /\ \E i \in 1..Len(fw_rules) : fw_rules[i].owner = id
          => ListRules(nk_platform, fw_root, fw_rules')
               = ListRules(nk_platform, fw_root, fw_rules)]_vars

\* C17: restore_access(id) removes only rules installed for that id: every
\* rule installed for another identifier (one of which id is a prefix
\* included) or for a blocked IP is still there afterwards.
C17_RestoreRemovesOnlyOwn ==
    [][\A id \in FwIds \cup NetAgents :
          NetCall("restore_access", id)
          => RulesOfOthers(fw_rules', id) = RulesOfOthers(fw_rules, id)]_vars

\* C18: after kill_network blocked an agent once or twice, one
\* restore_network for the agent clears it: is_blocked is false and no rule
\* installed by those kill_network calls remains, whether they were keyed by
\* pid, uid or agent id.
C18_OneRestoreClears ==
    [][\A a \in NetAgents :
          NetCall("restore_network", a) /\ IsBlocked(a)
          => /\ a \notin blocked_agents'
             /\ \A i \in 1..Len(fw_rules') : fw_rules'[i].by # a]_vars

(***************************************************************************)
(*                 PROPERTIES: SLIDING WINDOW DETECTOR                     *)
(***************************************************************************)
\* the sum of the values of a sequence of events
RECURSIVE SumValues(_)
SumValues(events) ==
    IF events = << >> THEN 0
    ELSE events[1].value + SumValues(Tail(events))

\* what was recorded for the metric in the `size` seconds up to time t
RecordedWithin(m, size, t) ==
    SumValues(SelectSeq(sw_recorded,
                        LAMBDA e : e.metric = m /\ e.timestamp >= t - size))

\* the breaches returned for a (metric, window) pair
ReturnedFor(m, size) ==
    SelectSeq(sw_ret.breaches, LAMBDA b : b.metric = m /\ b.window = size)

ReadsHistory(a, ty) ==
    /\ stats'.total_checks = stats.total_checks + 1
    /\ thr_ret'.op = "check_action"
    /\ thr_ret'.agent_id = a
    /\ thr_ret'.action_type = ty
    /\ thresholds[ty] # NoThreshold
    /\ thr_ret'.breach.threshold_name # "Cooldown Active"

\* the events the call counted: the history it left, without the call's own
\* event when it was allowed and recorded
CountedEvents(a, ty) ==
    IF thr_ret'.allowed
    THEN SubSeq(action_history'[a][ty], 1, Len(action_history'[a][ty]) - 1)
    ELSE action_history'[a][ty]

\* C20: the count check_action compares with max_count never includes an
\* event older than now - window_seconds: the read prunes the history of the
\* pair, the events counted are those of the pruned history (all of them
\* events that were in the history), and none of them is older than the
\* window.
C20_CountNeverIncludesOldEvents ==
    [][\A a \in Agents, ty \in ActionTypes :
          ReadsHistory(a, ty) =>
              LET counted == CountedEvents(a, ty)
                  cutoff == now - thresholds[ty].window_seconds
              IN  /\ \A i \in 1..Len(counted) :
                        /\ counted[i] >= cutoff
                        /\ \E j \in 1..Len(action_history[a][ty]) :
                              action_history[a][ty][j] = counted[i]
                  /\ ~thr_ret'.allowed =>
                        thr_ret'.breach.count = Len(counted)
                  /\ thr_ret'.allowed =>
                        /\ Len(counted) < thresholds[ty].max_count
                        /\ action_history'[a][ty] = Append(counted, now)]_vars

\* C20 witness: after two allowed calls, the call made at the last tick has
\* left a history that holds its own event only: the window is over for the
\* event recorded before.
C20_Witness ==
    /\ ThresholdChecked
    /\ thr_ret.allowed
    /\ thr_ret.at = MaxTime
    /\ thr_ret.at > thresholds[thr_ret.action_type].window_seconds
    /\ stats.total_checks = 2
    /\ stats.total_allowed = 2
    /\ action_history[thr_ret.agent_id][thr_ret.action_type] = << MaxTime >>

(***************************************************************************)
(*        PROPERTIES: THRESHOLD ENGINE, UNCONFIGURED TYPES AND KILLS       *)
(***************************************************************************)
\* the step is a check_action call for the pair
ChecksAction(a, ty) ==
    /\ stats'.total_checks = stats.total_checks + 1
    /\ thr_ret'.op = "check_action"
    /\ thr_ret'.agent_id = a
    /\ thr_ret'.action_type = ty

\* C28: check_action for an action type that has no ThresholdConfig at the
\* time of the call records the event and returns allowed with no breach,
\* whatever calls came before (the removal of a threshold that had breached
\* included).
C28_UnconfiguredNeverRestricted ==
    [][\A a \in Agents, ty \in ActionTypes :
          ChecksAction(a, ty) /\ thresholds[ty] = NoThreshold
          => /\ thr_ret'.allowed
             /\ thr_ret'.breach = NoBreach
             /\ action_history'[a][ty] = Append(action_history[a][ty], now)]_vars

\* C27: for a threshold with max_count N, multiplier_for_kill m > 1 and a
\* breach action other than kill, a breach returned to the agent once its
\* attempts within the window have reached m x N has should_kill = True.
C27_KillAtMultiplier ==
    /\ ThresholdChecked
    /\ ~thr_ret.allowed
    /\ thr_ret.breach.breach_action # "kill"
    /\ thresholds[thr_ret.action_type].multiplier_for_kill > 2
    /\ 2 * CallNumber >= thresholds[thr_ret.action_type].max_count
                           * thresholds[thr_ret.action_type].multiplier_for_kill
    => thr_ret.breach.should_kill

(***************************************************************************)
(*             PROPERTIES: HARD KILL, DENIED AND ZOMBIE REPORTS            *)
(***************************************************************************)
\* kill(pid) returns from one of its two signal sends because the send failed
\* although the process was alive
SendFailsOnLiveProcess ==
    /\ kpc \in {"send_soft", "send_hard"}
    /\ kpc' = "done"
    /\ proc.alive
    /\ ~SendSucceeds

\* C29: whenever kill(pid) cannot deliver a termination signal, graceful or
\* forceful, to a live process, the report's result is permission_denied
\* and not one of the success results.
C29_SignalFailureIsDenied ==
    [][SendFailsOnLiveProcess => report'.result = "denied"]_vars

Validated == rf_ret.op = "validate"

\* this step is a validate call
ValidateStep == rf_calls' = rf_calls + 1

\* C22: when the call to the authoritative validator fails, the decision is
\* the Fail-Mode Handler's: under the default (closed) policy the action
\* whose remote validation failed is not allowed.
C22_ApiFailureDeniedWhenClosed ==
    Validated /\ rf_ret.api_failed /\ fm_config.mode = DefaultFailMode
        => ~rf_ret.allowed

\* C24: once kill() was called, or a validate call met a critical-risk
\* action with auto_kill_on_critical set, the fence is killed; every validate
\* call made on a killed fence, and the one that killed it, returns
\* allowed = False; and only reset() makes a killed fence live again.
C24_KillLatches ==
    [][/\ rf_ret'.op = "kill" => rf_killed'
       /\ ValidateStep /\ rf_killed => ~rf_ret'.allowed /\ rf_killed'
       /\ (/\ ValidateStep
           /\ rf_ret'.risk_level = "critical"
           /\ rf_config.auto_kill_on_critical)
             => ~rf_ret'.allowed /\ rf_killed'
       /\ rf_killed /\ ~rf_killed' => rf_ret'.op = "reset"]_vars

\* C24 witness: a killed fence, which has logged a refusal before, has just
\* refused an action that has nothing against it.
C24_Witness ==
    /\ rf_killed
    /\ Validated
    /\ ~rf_ret.allowed
    /\ rf_ret.reasons = <<"Agent has been killed - all actions blocked">>
    /\ ~ActionBlocked(rf_config, rf_ret.action)
    /\ ~TargetBlocked(rf_config, rf_ret.target)
    /\ rf_ret.amount = 0
    /\ rf_action_log # << >>
    /\ ~rf_action_log[Len(rf_action_log)]

\* C25: validate never returns allowed = True for an action listed in
\* blocked_actions nor for a target that contains an entry of
\* blocked_targets, whatever the risk_threshold.
C25_BlockedNeverAllowed ==
    /\ Validated
    /\ \/ ActionBlocked(rf_config, rf_ret.action)
       \/ TargetBlocked(rf_config, rf_ret.target)
    => ~rf_ret.allowed

\* C26: total_spent never exceeds spending_limit, and a validate call whose
\* amount would take total_spent over the limit returns allowed = False and
\* leaves total_spent unchanged.
C26_SpendingNeverExceedsLimit ==
    /\ [](rf_total_spent <= rf_config.spending_limit)
    /\ [][ValidateStep /\ OverLimit(rf_config, rf_total_spent, rf_ret'.amount)
            => ~rf_ret'.allowed /\ rf_total_spent' = rf_total_spent]_vars

(***************************************************************************)
(*             PROPERTIES: CHECKS UNDER FAULTS AND DURING A KILL           *)
(***************************************************************************)
\* C21: a check_action call (and with it BehavioralFence.check) that meets an
\* internal error, such as a breach or kill callback that raises, still
\* returns a blocked decision to its caller: no call ends with the exception
\* in place of a decision.
C21_FaultsReturnBlocked ==
    \A t \in Threads :
        cc_call[t].pc = "returned" => cc_call[t].result \in {"allowed", "blocked"}

\* C23: while the kill callback of one agent's breach is running, no
\* check_action call for a different agent has to wait for the lock.
C23_KillOffTheHotPath ==
    \A t \in Threads, u \in Threads :
        /\ cc_call[t].pc = "on_kill"
        /\ cc_call[u].pc = "waiting"
        /\ cc_call[u].agent_id # cc_call[t].agent_id
        => cc_lock # t

(***************************************************************************)
(*                  PROPERTIES: HARD KILL, TERMINATION                     *)
(***************************************************************************)
\* the liveness polls made by the loops of _wait_for_death and _verify_death
\* (the existence check on entry to kill is the first is_process_alive call)
LoopPolls == IF kpc = "idle" THEN 0 ELSE kill_obs.polls - 1

\* the polls that fit in the grace period: one every verify_interval while
\* less than soft_timeout has passed
PollsInGracePeriod ==
    (hk_config.soft_timeout + hk_config.verify_interval - 1)
        \div hk_config.verify_interval

\* C31: whatever the process does, a kill(pid) call that was entered returns
\* a report, and its loops make at most the polls that fit in the soft grace
\* period plus max_verify_attempts + 1 liveness polls.
C31_KillTerminates ==
    /\ [](LoopPolls <= PollsInGracePeriod + hk_config.max_verify_attempts + 1)
    /\ [](kpc = "done" => report.result \in KillResults)
    /\ (kpc # "idle") ~> (kpc = "done")

\* C31 witness: a kill has returned after exactly that many polls, for a
\* process that never died.
C31_Witness ==
    /\ kpc = "done"
    /\ proc.alive
    /\ report.result = "zombie"
    /\ LoopPolls = PollsInGracePeriod + hk_config.max_verify_attempts + 1

(***************************************************************************)
(*                 PROPERTIES: THRESHOLD ENGINE STATISTICS                 *)
(***************************************************************************)
\* C37: after any sequence of completed check_action calls (with
\* reset_agent, add_threshold and remove_threshold calls among them),
\* total_checks = total_allowed + total_blocked.
C37_StatsConsistent ==
    stats.total_checks = stats.total_allowed + stats.total_blocked

\* C37 witness: calls answered in each of the three ways have been counted:
\* one allowed, one refused by a breach, one refused by the cooldown.
C37_Witness ==
    /\ stats.total_allowed >= 1
    /\ stats.total_blocked >= 2
    /\ Len(breach_history) = 1
    /\ thr_ret.op = "check_action"
    /\ thr_ret.breach.threshold_name = "Cooldown Active"

(***************************************************************************)
(*              PROPERTIES: SLIDING WINDOWS, THE TOTALS READ               *)
(***************************************************************************)
\* C32: whatever the order of the timestamps the record calls were given,
\* get_total(now) of an accumulator includes no event older than now minus
\* the window's size, and (checked here where the calls were made in time
\* order) equals the sum of the values recorded for the metric since then.
C32_TotalIsSumWithinWindow ==
    sw_ret.op = "get_total" =>
        LET w == sw_windows[sw_ret.metric][sw_ret.window] IN
        /\ sw_ret.total = SumValues(w.events)
        /\ \A i \in 1..Len(w.events) :
              w.events[i].timestamp >= sw_ret.ts - sw_ret.window
        /\ sw_in_order
             => sw_ret.total = RecordedWithin(sw_ret.metric, sw_ret.window, sw_ret.ts)

\* the record calls so far were given non-decreasing timestamps
RecordsInOrder ==
    \A i \in 1..Len(sw_recorded), j \in 1..Len(sw_recorded) :
        i < j => sw_recorded[i].timestamp <= sw_recorded[j].timestamp

\* the three totals just read are nested
TotalsNested ==
    /\ sw_ret.totals[HOUR_1] <= sw_ret.totals[HOUR_6]
    /\ sw_ret.totals[HOUR_6] <= sw_ret.totals[HOUR_24]

C39_BlockedOnlyByAppliedRule ==
    [][\A a \in NetAgents :
          ~IsBlocked(a) /\ a \in blocked_agents'
            => /\ nk_ret'.op = "kill_network"
               /\ nk_ret'.ident = a
               /\ nk_ret'.result # "failed"
               /\ Len(fw_rules') > Len(fw_rules)]_vars

(***************************************************************************)
(*                   PROPERTIES: TERMINATOR, kill_by_pid                   *)
(***************************************************************************)
\* C40: when kill_by_pid(pid) returns, no registered agent is bound to pid,
\* also when several agent ids were registered with that pid.
C40_NoAgentLeftOnPid ==
    [][\A t \in Callers :
          Finishes(t) /\ at_call[t].op = "kill_by_pid"
            => \A a \in TermAgents :
                  Registered(at_agents', a)
                    => PidOf(at_agents', a) # at_call[t].pid]_vars

(***************************************************************************)
(*             PROPERTIES: EXFILTRATION DETECTOR, THE WINDOW               *)
(***************************************************************************)
\* the accesses of an agent recorded later than window_seconds before `at`
AccessesInWindow(agent_id, at) ==
    SelectSeq(ex_accesses,
              LAMBDA e : e.agent_id = agent_id /\ e.ts > at - window_seconds)

RECURSIVE SumSizes(_)
SumSizes(accesses) ==
    IF accesses = << >> THEN 0
    ELSE Head(accesses).size + SumSizes(Tail(accesses))

TargetsOf(accesses) == { accesses[i].target : i \in DOMAIN accesses }

\* C34: at each record_data_access, the byte volume and the number of distinct
\* targets compared with the caps are those of the agent's accesses within the
\* last window_seconds; older accesses count for neither
C34_BothMeasuresWindowed ==
    ex_ret.agent_id # "none" =>
        /\ ex_ret.total_mb =
               SumSizes(AccessesInWindow(ex_ret.agent_id, ex_ret.at))
        /\ ex_ret.unique_targets =
               Cardinality(TargetsOf(AccessesInWindow(ex_ret.agent_id,
                                                      ex_ret.at)))

(***************************************************************************)
(*            PROPERTIES: THRESHOLD ENGINE, BREACH ROUTING                 *)
(***************************************************************************)
\* thread t's check_action call records a breach in this step
RecordsBreach(t) ==
    /\ cc_call[t].pc = "waiting"
    /\ cc_call'[t].pc # "waiting"
    /\ ~(now < cc_cooldowns[cc_call[t].agent_id])
    /\ ThresholdExceeded(cc_history[cc_call[t].agent_id],
                         cc_threshold.max_count)

\* the breach thread t's call records is one with should_kill = True
TaggedKill(t) == ShouldKill(cc_history[cc_call[t].agent_id], cc_threshold)

\* thread t's call invokes self.on_kill in this step
InvokesOnKill(t) == cc_call[t].pc # "on_kill" /\ cc_call'[t].pc = "on_kill"

\* C33 (threshold breaches, a kill callback being set): a breach with
\* should_kill = True has the kill callback invoked, once, in the call that
\* recorded it: straight away or when the breach callback is done; a breach
\* without should_kill never has it invoked.
C33_KillBreachInvokesKillOnce ==
    [][\A t \in Threads :
         /\ (RecordsBreach(t) /\ TaggedKill(t) /\ cc_callbacks.on_kill # "none")
                => cc_call'[t].pc \in {"on_breach", "on_kill"}
         /\ ( /\ cc_call[t].pc = "on_breach"
              /\ cc_call'[t].pc # "on_breach"
              /\ cc_call[t].should_kill
              /\ cc_callbacks.on_kill # "none" )
                => cc_call'[t].pc = "on_kill"
         /\ InvokesOnKill(t)
                => ( \/ RecordsBreach(t) /\ TaggedKill(t)
                     \/ cc_call[t].pc = "on_breach" /\ cc_call[t].should_kill )
      ]_vars

(***************************************************************************)
(*              PROPERTIES: POLICY CACHE, CONCURRENT CALLS                 *)
(***************************************************************************)
\* what one call, run alone, leaves under the key
AfterCall(op, entry) ==
    CASE op = "get"        -> IF entry = "stale" THEN "absent" ELSE entry
      [] op = "set"        -> "fresh"
      [] op = "invalidate" -> "absent"

\* what the threads' calls leave under the key when run one after another
RECURSIVE AfterCalls(_, _)
AfterCalls(order, entry) ==
    IF order = << >> THEN entry
    ELSE AfterCalls(Tail(order), AfterCall(pk_call[Head(order)].op, entry))

\* the orders in which the threads' calls can be run one after another
CallOrders ==
    { o \in [1..Cardinality(CacheThreads) -> CacheThreads] :
        \A i, j \in DOMAIN o : i # j => o[i] # o[j] }

NoCacheCallFails == \A t \in CacheThreads : pk_call[t].result # "KeyError"

AllCacheCallsDone == \A t \in CacheThreads : pk_call[t].pc = "done"

ContentsOfSomeOrder ==
    AllCacheCallsDone =>
        pk_entry \in { AfterCalls(o, pk_first) : o \in CallOrders }

\* C35: with get, set and invalidate calls on one key interleaved from several
\* threads, no call fails, and when all have returned the cache holds under
\* the key what some sequential order of the same calls leaves there.
C35_ThreadSafe == NoCacheCallFails /\ ContentsOfSomeOrder

(***************************************************************************)
(*                 PROPERTIES: SAFE RESUME, THE RATE LIMIT                 *)
(***************************************************************************)
\* the resumes of the agent executed in the hour that starts at time `from`
ResumesInSpan(agent_id, from) ==
    SelectSeq(rm_resume_history,
              LAMBDA r : /\ r.agent_id = agent_id
                         /\ r.timestamp >= from
                         /\ r.timestamp - from < ResumeSpan)

\* C36: whatever the resume mode, the resumes executed for one agent within
\* any one-hour span never number more than max_resumes_per_hour.
C36_ResumeRateLimited ==
    \A i \in DOMAIN rm_resume_history :
        Len(ResumesInSpan(rm_resume_history[i].agent_id,
                          rm_resume_history[i].timestamp))
            <= rm_policy.max_resumes_per_hour
====
